---- MODULE Spec2Model ----
(***************************************************************************)
(* Transactional stock-consistency core of the inventory / point-of-sale   *)
(* ledger: ProductService (reserve / release / consume on a StockLevel     *)
(* row) and TransactionService (create / confirm / cancel / reconcile).    *)
(*                                                                         *)
(* Every request runs in its own AsyncSession (app/db/session.py get_db),  *)
(* so a request is a task with its own local variables; one action of the  *)
(* model is one storage round trip of a handler (a SELECT, or an UPDATE /  *)
(* INSERT together with the commit that publishes it).  Quantities are     *)
(* Numeric(12,4) columns; the model counts them in whole units.            *)
(*                                                                         *)
(*   Spec        sale requests of several sessions interleave at storage   *)
(*               I/O                                                       *)
(*   LedgerSpec  ledger calls of several sessions interleave               *)
(*   SeqSpec     requests run one after another (one session at a time)    *)
(*   ReconSpec   reconciliation batches run one after another              *)
(*   DeclareSpec stock declarations and ledger calls, one after another    *)
(*   FaultSpec   sale requests one after another, where a storage round    *)
(*               trip of confirm may fail                                  *)
(***************************************************************************)
EXTENDS Integers, Sequences, FiniteSets, TLC

\* ----------------------------------------------------------------- bounds
MaxQty == 2
MaxEvents == 2
MaxBatch == 3
MaxTasks == 2
MaxLogs == 2
MaxFactor == 3
MaxConvRows == 2
MaxBeats == 2

\* ------------------------------------------------------------ value sets
\* quantities of a ledger call, and converted_quantity values of a sale payload
Qtys == 0..MaxQty
SaleQtys == 1..MaxQty
EventIds == 1..MaxEvents
TaskIds == 1..MaxTasks

\* products.id values that exist in the catalog, and the ids a payload may name
Products == {1}
ProductIds == {1, 2}
\* the location of the model, and the (product_id, location_id) pair that may have a
\* StockLevel row
Location == 1
RowKey == <<1, Location>>
StockKeys == {RowKey}

PENDING == "pending"
CONFIRMED == "confirmed"
CANCELLED == "cancelled"
FAILED == "failed"

\* quantity and reserved_quantity of a StockLevelCreate body: any Decimal, so
\* negative values too
DeclQtys == (0 - 1)..MaxQty

\* a StockLevel row of a pair; rows counts the rows stored for the pair (the table has
\* no unique constraint on the pair), quantity and reserved_quantity are those of the
\* row with the lowest id
NoRow == [exists |-> FALSE, quantity |-> 0, reserved_quantity |-> 0, rows |-> 0]
Row(q, r) == [exists |-> TRUE, quantity |-> q, reserved_quantity |-> r, rows |-> 1]

\* no reserve to remember for a key / reserve(k, q) succeeded and nothing was called since
NoHold == [held |-> FALSE, qty |-> 0]
Hold(q) == [held |-> TRUE, qty |-> q]

\* units of measure, the products that carry conversion rows, and the key of a row
Units == {"bottle", "glass", "case"}
ConvProducts == {1, 2}
ConvKeys == ConvProducts \X Units \X Units
\* conversion_factor values of the stored rows
Factors == 2..MaxFactor
NoConversions == [k \in ConvKeys |-> 0]

NoData == [event_id |-> 0, product_id |-> 0, location_id |-> 0, converted_quantity |-> 0]
Payloads ==
    {[event_id |-> e, product_id |-> p, location_id |-> Location, converted_quantity |-> q] :
        e \in EventIds, p \in ProductIds, q \in SaleQtys}

\* the ids of the locations table, and the location ids that a body may name
Locations == {Location}
LocationIds == {1, 2}

\* every converted_quantity that SaleTransactionCreate accepts: the schema has no
\* lower bound, so zero and negative values are among them
SignedQtys == (0 - 1)..MaxQty

\* the bodies that SaleTransactionCreate accepts
AnyPayloads ==
    {[event_id |-> e, product_id |-> p, location_id |-> l, converted_quantity |-> q] :
        e \in EventIds, p \in ProductIds, l \in LocationIds, q \in SignedQtys}

\* the batches of the requests that pass the HMAC gate: at most one item
GateBatches == UNION {[1..n -> Payloads] : n \in 0..1}

\* lists of payloads of length 0..MaxBatch
Batches == UNION {[1..n -> Payloads] : n \in 0..MaxBatch}

\* a Decimal that a conversion returns, kept exactly as the fraction n / d
Frac(n, d) == [n |-> n, d |-> d]

NoResult ==
    [kind |-> "none", error |-> "none", detail |-> "none", id |-> 0, status |-> "none",
     ret |-> FALSE, processed_count |-> 0, success_count |-> 0, failed_count |-> 0,
     value |-> Frac(0, 1)]

\* terminals.code values of the registered, active terminals
Terminal1 == "bar_1_terminal_1"
Terminal2 == "bar_1_terminal_2"
Terminals == {Terminal1, Terminal2}

\* a registered terminal with is_active = False
Retired == "bar_1_terminal_0"

\* the rows of the terminals table
Registered == Terminals \cup {Retired}

\* settings.TERMINAL_TIME_WINDOW_MINUTES
TERMINAL_TIME_WINDOW_MINUTES == 5

\* now - timestamp of a request in whole minutes, up to one minute outside the window
Skews == (0 - (TERMINAL_TIME_WINDOW_MINUTES + 1))..(TERMINAL_TIME_WINDOW_MINUTES + 1)

\* Terminal.secret_key: every terminal has a secret of its own
SecretOf(terminal) == <<"secret_key", terminal>>

\* "method + url + timestamp + body" of a request
Message(method, path, timestamp, body) == <<method, path, timestamp, body>>

\* calculate_hmac_signature: the hex digest of HMAC-SHA256, a value that is given by
\* the key and the message and that no other key or message gives
calculate_hmac_signature(message, secret_key) == <<"hmac_sha256", secret_key, message>>

\* X-Timestamp: absent, not in ISO format, or a time skew minutes before now
Stamp(kind, skew) == [kind |-> kind, skew |-> skew]
Timestamps == {Stamp("missing", 0), Stamp("malformed", 0)} \cup {Stamp("iso", m) : m \in Skews}

\* request bodies and the path of the endpoint
Bodies == {"body_1", "body_2"}
ReconcilePath == "/api/v1/transactions/reconcile/"

\* X-Signature: absent, a string with a non-ASCII character, or a hex digest
Sig(kind, digest) == [kind |-> kind, digest |-> digest]

\* the signatures a sender may put on a request with timestamp ts: none, a malformed
\* one, or the digest that the secret of some terminal gives for some body
Signatures(ts) ==
    {Sig("missing", <<>>), Sig("non_ascii", <<>>)}
    \cup {Sig("hex", calculate_hmac_signature(Message("POST", ReconcilePath, ts, b), SecretOf(k))) :
            k \in Registered, b \in Bodies}

Abs(x) == IF x < 0 THEN 0 - x ELSE x

\* the headers and the body of a terminal request; "missing" is an absent header
NoRequest ==
    [terminal_id |-> "none", timestamp |-> Stamp("missing", 0),
     signature |-> Sig("missing", <<>>), body |-> "none"]

\* the arguments of a convert_units call
NoConv == [product_id |-> 0, from_unit |-> "none", to_unit |-> "none", quantity |-> Frac(0, 1)]

IdleTask ==
    [pc |-> "idle", op |-> "none", data |-> NoData, tid |-> 0, key |-> <<0, 0>>, qty |-> 0,
     snap |-> NoRow, stock_data |-> NoRow, batch |-> <<>>, idx |-> 0, log |-> 0, base |-> 0,
     terminal |-> "none", terminal_id |-> "none", conv |-> NoConv, first |-> NoConv,
     request |-> NoRequest,
     processed_count |-> 0, success_count |-> 0, failed_count |-> 0, result |-> NoResult]

VARIABLES
    stock,        \* stock_levels table: StockKeys -> row
    txns,         \* sale_transactions table: sequence, the index is the id
    logs,         \* reconciliation_logs table: sequence, the index is the id
    tasks,        \* the requests in flight: TaskIds -> local state of the handler
    declared,     \* history: the on-hand quantity each key was declared with
    deducted,     \* history: per event_id, how many consume calls of a confirm succeeded
    conversions,  \* unit_conversions table: ConvKeys -> conversion_factor, 0 for no row
    audit,        \* audit_logs table: the set of <<table, record id, operation>> written
    sink,         \* the audit connection works (engine.connect() and the INSERT succeed)
    last,         \* history: per key, the reserve that succeeded last with no call since
    terminals     \* terminals table: code -> is_active, last_heartbeat (the stamps so far)

vars == <<stock, txns, logs, tasks, declared, deducted, conversions, audit, sink, last,
          terminals>>

\* ------------------------------------------------------- pure helpers
\* max(0, x) as used by release_reserved_stock and consume_stock
Max0(x) == IF 0 > x THEN 0 ELSE x

\* available = stock_level.quantity - stock_level.reserved_quantity
Available(row) == row.quantity - row.reserved_quantity

\* mutants of the availability check: it never raises / it forgets the reserved part
Insufficient_Never(row, qty) == FALSE
Insufficient_IgnoreReserved(row, qty) == row.quantity < qty

\* the availability check of reserve_stock and consume_stock: "if available < quantity: raise"
Insufficient(row, qty) == Available(row) < qty

\* mutant of the reservation: the requested quantity replaces what was reserved
ReserveValue_Overwrite(row, qty) == qty

\* values(reserved_quantity = stock_level.reserved_quantity + quantity)
ReserveValue(row, qty) == row.reserved_quantity + qty

\* mutant of the release: the floor at zero is missing
ReleaseValue_NoFloor(row, qty) == row.reserved_quantity - qty

\* new_reserved = max(0, stock_level.reserved_quantity - quantity)
ReleaseValue(row, qty) == Max0(row.reserved_quantity - qty)

\* mutant of the deduction: the quantity is taken twice
ConsumeQuantity_Twice(row, qty) == row.quantity - qty - qty

\* values(quantity = ..., reserved_quantity = ...) of consume_stock
ConsumeQuantity(row, qty) == row.quantity - qty

\* mutant of the deduction: the reserved part is left as it was
ConsumeReserved_Keep(row, qty) == row.reserved_quantity

ConsumeReserved(row, qty) == Max0(row.reserved_quantity - qty)

\* get_stock_level: the row of the pair, or None
GetStockLevel(k) == IF k \in StockKeys THEN stock[k] ELSE NoRow

\* mutant of the event_id lookup: it never finds the record
ByEventId_Miss(e) == 0

\* select(SaleTransaction).where(event_id == e).scalar_one_or_none(): the id, 0 for None
ByEventId(e) ==
    IF \E i \in 1..Len(txns) : txns[i].event_id = e
    THEN CHOOSE i \in 1..Len(txns) : txns[i].event_id = e
    ELSE 0

\* db.get(SaleTransaction, id) finds a record
TxnExists(id) == id \in 1..Len(txns)

\* mutants of the status check: it never rejects / it rejects confirmed records only
NotPending_Never(status) == FALSE
NotPending_OnlyConfirmed(status) == status = CONFIRMED

\* "if transaction.status != TransactionStatus.PENDING: raise ValueError"
NotPending(status) == status # PENDING

\* mutant of the product check: every product_id passes
ProductExists_Always(p) == TRUE

\* db.get(Product, product_id) finds a product
ProductExists(p) == p \in Products

\* a commit of the session publishes the log the session flushed, if it holds one
Commit(task) ==
    IF task.log # 0 THEN [logs EXCEPT ![task.log].committed = TRUE] ELSE logs

\* the after_insert / after_update listener of an ORM flush: the entry is written on
\* a connection of its own; "except Exception" logs a failed write and goes on
AuditWrite(entry) == IF sink THEN audit \cup {entry} ELSE audit

\* after_update reads the old/new snapshot from target._<attr>_history, outside its
\* try block.  The attribute comes with the declarative Base of app/models/base.py:
\* the audit notification carries the old/new field snapshot, so the read gives it
HistoryAvailable == TRUE

\* mutant of the listener: the exception of a failed audit write leaves the listener
AfterAudit_Propagates(task, operation) ==
    IF sink THEN task
    ELSE [task EXCEPT !.pc = "done",
                      !.result = [NoResult EXCEPT !.kind = "error", !.error = "OperationalError",
                                                  !.detail = "audit"]]

\* the task after the listener of the flush has run: the write to audit_logs is
\* inside "try: ... except Exception as e: logger.error(...)", so the task goes on
\* as it would without it; only the snapshot of an update is read before the try
AfterAudit(task, operation) ==
    IF operation = "UPDATE" /\ ~HistoryAvailable
    THEN [task EXCEPT !.pc = "done",
                      !.result = [NoResult EXCEPT !.kind = "error", !.error = "AttributeError",
                                                  !.detail = "history"]]
    ELSE task

\* mutant of the row lookup: the product_id is not part of the condition
ConversionRow_AnyProduct(table, p, from, to) ==
    IF \E x \in ConvProducts : table[<<x, from, to>>] # 0
    THEN table[<<CHOOSE x \in ConvProducts : table[<<x, from, to>>] # 0, from, to>>]
    ELSE 0

\* mutant of the foreign key: every location_id is accepted
LocationExists_Always(l) == TRUE

\* sale_transactions.location_id is ForeignKey("locations.id"), nullable=False: the
\* INSERT is accepted when the locations table has the id
LocationExists(l) == l \in Locations

\* select(UnitConversion).where(product_id == p, from_unit == from, to_unit == to)
\* .scalar_one_or_none(): the conversion_factor of the row, 0 for None
ConversionRow(table, p, from, to) ==
    IF <<p, from, to>> \in ConvKeys THEN table[<<p, from, to>>] ELSE 0

\* mutant of convert_units: the reverse row is tried before the direct one
ConvertUnits_ReverseFirst(table, p, from, to, quantity) ==
    LET conversion == ConversionRow(table, p, from, to)
        reverse_conversion == ConversionRow(table, p, to, from)
    IN  IF reverse_conversion # 0
        THEN [NoResult EXCEPT !.kind = "ok",
                              !.value = Frac(quantity.n, quantity.d * reverse_conversion)]
        ELSE IF conversion # 0
        THEN [NoResult EXCEPT !.kind = "ok",
                              !.value = Frac(quantity.n * conversion, quantity.d)]
        ELSE IF from = to
        THEN [NoResult EXCEPT !.kind = "ok", !.value = quantity]
        ELSE [NoResult EXCEPT !.kind = "error", !.error = "InvalidOperationError",
                              !.detail = "no_conversion"]

\* convert_units: the direct row multiplies; without it the reverse row divides;
\* without both the quantity is returned for equal units and the call raises otherwise
ConvertUnits(table, p, from, to, quantity) ==
    LET conversion == ConversionRow(table, p, from, to)
        reverse_conversion == ConversionRow(table, p, to, from)
    IN  IF conversion # 0
        THEN [NoResult EXCEPT !.kind = "ok",
                              !.value = Frac(quantity.n * conversion, quantity.d)]
        ELSE IF reverse_conversion # 0
        THEN [NoResult EXCEPT !.kind = "ok",
                              !.value = Frac(quantity.n, quantity.d * reverse_conversion)]
        ELSE IF from = to
        THEN [NoResult EXCEPT !.kind = "ok", !.value = quantity]
        ELSE [NoResult EXCEPT !.kind = "error", !.error = "InvalidOperationError",
                              !.detail = "no_conversion"]

\* ------------------------------------------------------- results
Err(e, d) == [NoResult EXCEPT !.kind = "error", !.error = e, !.detail = d]
OkTxn(id, status) == [NoResult EXCEPT !.kind = "ok", !.id = id, !.status = status]
OkBool(b) == [NoResult EXCEPT !.kind = "ok", !.ret = b]

\* the status code of the confirm and cancel endpoints: "except ValueError" gives
\* 400 whatever the message, any other exception is an internal server error
HttpStatus(res) ==
    IF res.kind = "ok" THEN "200"
    ELSE IF res.error = "ValueError" THEN "400"
    ELSE "500"

\* the handler returns (or raises) to the endpoint
Respond(task, res) == [task EXCEPT !.pc = "done", !.result = res]

\* no stock declared for the pair yet, or a row declared with 0 <= reserved <= quantity
Init ==
    /\ \/ /\ stock = [k \in StockKeys |-> NoRow]
          /\ declared = [k \in StockKeys |-> 0]
       \/ \E q \in 0..MaxQty : \E r \in 0..q :
             /\ stock = [k \in StockKeys |-> Row(q, r)]
             /\ declared = [k \in StockKeys |-> q]
    /\ txns = <<>>
    /\ logs = <<>>
    /\ tasks = [t \in TaskIds |-> IdleTask]
    /\ deducted = [e \in EventIds |-> 0]
    /\ conversions = NoConversions
    /\ audit = {}
    /\ sink = TRUE
    /\ last = [k \in StockKeys |-> NoHold]
    /\ terminals = [r \in Registered |-> [is_active |-> r \in Terminals, last_heartbeat |-> 0]]

\* ------------------------------------------------- control flow of a task
\* mutant of the iteration: the list is walked from its end
ItemAt_Reversed(batch, i) == batch[Len(batch) + 1 - i]

\* "for transaction_data in transactions": the i-th element of the submitted list
ItemAt(batch, i) == batch[i]

\* the head of reconcile's for loop: the next item enters create, or the loop ends
NextItem(task) ==
    IF task.idx < Len(task.batch)
    THEN [task EXCEPT !.idx = @ + 1, !.processed_count = @ + 1,
                      !.data = ItemAt(task.batch, task.idx + 1), !.pc = "create_select",
                      !.tid = 0, !.key = <<0, 0>>, !.qty = 0, !.snap = NoRow]
    ELSE [task EXCEPT !.pc = "recon_close", !.data = NoData,
                      !.tid = 0, !.key = <<0, 0>>, !.qty = 0, !.snap = NoRow]

\* reconcile's "success_count += 1" after an item that did not raise
Succeed(task) == NextItem([task EXCEPT !.success_count = @ + 1])

\* mutant of the except clause: the first failing item ends the loop
Raise_Abort(task, res) ==
    IF task.op = "reconcile"
    THEN [task EXCEPT !.failed_count = @ + 1, !.pc = "recon_close", !.data = NoData,
                      !.tid = 0, !.key = <<0, 0>>, !.qty = 0, !.snap = NoRow]
    ELSE Respond(task, res)

\* an exception leaves create / confirm / cancel: reconcile's "except Exception"
\* counts it and goes on, an endpoint call propagates it to the caller
Raise(task, res) ==
    IF task.op = "reconcile"
    THEN NextItem([task EXCEPT !.failed_count = @ + 1])
    ELSE Respond(task, res)

\* mutant of the loop body: reconcile leaves a record it has just got pending
CreateReturn_NeverConfirm(task, id, status) ==
    IF task.op = "reconcile"
    THEN Succeed(task)
    ELSE Respond(task, OkTxn(id, status))

\* mutant of the loop body: reconcile calls confirm whatever status create returned
CreateReturn_AlwaysConfirm(task, id, status) ==
    IF task.op = "reconcile"
    THEN [task EXCEPT !.pc = "confirm_get", !.tid = id]
    ELSE Respond(task, OkTxn(id, status))

\* create_sale_transaction returns the response of record id
CreateReturn(task, id, status) ==
    IF task.op = "reconcile"
    THEN IF status = PENDING
         THEN [task EXCEPT !.pc = "confirm_get", !.tid = id]
         ELSE Succeed(task)
    ELSE Respond(task, OkTxn(id, status))

\* a new request is accepted by a free session; the sessions are interchangeable, so
\* the lowest free one takes it
CanStart(t) ==
    /\ tasks[t].pc = "idle"
    /\ \A u \in TaskIds : u < t => tasks[u].pc # "idle"

\* ------------------------------------------------- ProductService.reserve_stock
StartReserve(t) ==
    /\ CanStart(t)
    /\ \E k \in StockKeys, q \in Qtys :
          /\ tasks' = [tasks EXCEPT ![t] =
              [IdleTask EXCEPT !.op = "reserve", !.pc = "reserve_read", !.key = k, !.qty = q]]
          /\ last' = [last EXCEPT ![k] = NoHold]
    /\ UNCHANGED <<stock, txns, logs, declared, deducted, conversions, audit, sink, terminals>>

ReserveRead(t) ==
    LET task == tasks[t]
        row == GetStockLevel(task.key)
    IN  /\ task.pc = "reserve_read"
        /\ tasks' = [tasks EXCEPT ![t] =
              IF ~row.exists
              THEN Respond(task, Err("InsufficientStockError", "stock_not_found"))
              ELSE IF Insufficient(row, task.qty)
              THEN Respond(task, Err("InsufficientStockError", "insufficient"))
              ELSE [task EXCEPT !.pc = "reserve_write", !.snap = row]]
        /\ UNCHANGED <<stock, txns, logs, declared, deducted, conversions, audit, sink, last, terminals>>

ReserveWrite(t) ==
    LET task == tasks[t]
    IN  /\ task.pc = "reserve_write"
        /\ stock' = [stock EXCEPT ![task.key].reserved_quantity = ReserveValue(task.snap, task.qty)]
        /\ logs' = Commit(task)
        /\ last' = [last EXCEPT ![task.key] = Hold(task.qty)]
        /\ tasks' = [tasks EXCEPT ![t] = Respond(task, OkBool(TRUE))]
        /\ UNCHANGED <<txns, declared, deducted, conversions, audit, sink, terminals>>

\* ---------------------------------------- ProductService.release_reserved_stock
StartRelease(t) ==
    /\ CanStart(t)
    /\ \E k \in StockKeys, q \in Qtys :
          /\ tasks' = [tasks EXCEPT ![t] =
              [IdleTask EXCEPT !.op = "release", !.pc = "release_read", !.key = k, !.qty = q]]
    /\ UNCHANGED <<stock, txns, logs, declared, deducted, conversions, audit, sink, last, terminals>>

\* called by the release request and by cancel_transaction
ReleaseRead(t) ==
    LET task == tasks[t]
        row == GetStockLevel(task.key)
    IN  /\ task.pc = "release_read"
        /\ tasks' = [tasks EXCEPT ![t] =
              IF ~row.exists
              THEN IF task.op = "release"
                   THEN Respond(task, OkBool(FALSE))
                   ELSE [task EXCEPT !.pc = "cancel_commit"]
              ELSE [task EXCEPT !.pc = "release_write", !.snap = row]]
        /\ last' = [k \in StockKeys |-> IF k = task.key THEN NoHold ELSE last[k]]
        /\ UNCHANGED <<stock, txns, logs, declared, deducted, conversions, audit, sink, terminals>>

\* mutant of the release: the UPDATE takes the quantity from on-hand as well
ReleaseWrite_TakesQuantity(t) ==
    LET task == tasks[t]
    IN  /\ task.pc = "release_write"
        /\ stock' = [stock EXCEPT ![task.key] =
              [@ EXCEPT !.quantity = task.snap.quantity - task.qty,
                        !.reserved_quantity = ReleaseValue(task.snap, task.qty)]]
        /\ logs' = Commit(task)
        /\ tasks' = [tasks EXCEPT ![t] =
              IF task.op = "release"
              THEN Respond(task, OkBool(TRUE))
              ELSE [task EXCEPT !.pc = "cancel_commit"]]
        /\ UNCHANGED <<txns, declared, deducted, conversions, audit, sink, last, terminals>>

ReleaseWrite(t) ==
    LET task == tasks[t]
    IN  /\ task.pc = "release_write"
        /\ stock' = [stock EXCEPT ![task.key].reserved_quantity = ReleaseValue(task.snap, task.qty)]
        /\ logs' = Commit(task)
        /\ tasks' = [tasks EXCEPT ![t] =
              IF task.op = "release"
              THEN Respond(task, OkBool(TRUE))
              ELSE [task EXCEPT !.pc = "cancel_commit"]]
        /\ UNCHANGED <<txns, declared, deducted, conversions, audit, sink, last, terminals>>

\* ------------------------------------------------- ProductService.consume_stock
StartConsume(t) ==
    /\ CanStart(t)
    /\ \E k \in StockKeys, q \in Qtys :
          /\ tasks' = [tasks EXCEPT ![t] =
              [IdleTask EXCEPT !.op = "consume", !.pc = "consume_read", !.key = k, !.qty = q]]
    /\ UNCHANGED <<stock, txns, logs, declared, deducted, conversions, audit, sink, last, terminals>>

\* called by the consume request and by confirm_transaction, whose "except
\* InsufficientStockError" takes the raise
ConsumeRead(t) ==
    LET task == tasks[t]
        row == GetStockLevel(task.key)
    IN  /\ task.pc = "consume_read"
        /\ tasks' = [tasks EXCEPT ![t] =
              IF ~row.exists
              THEN IF task.op = "consume"
                   THEN Respond(task, OkBool(FALSE))
                   ELSE [task EXCEPT !.pc = "confirm_commit"]
              ELSE IF Insufficient(row, task.qty)
              THEN IF task.op = "consume"
                   THEN Respond(task, Err("InsufficientStockError", "insufficient"))
                   ELSE [task EXCEPT !.pc = "confirm_fail", !.snap = row]
              ELSE [task EXCEPT !.pc = "consume_write", !.snap = row]]
        /\ last' = [k \in StockKeys |-> IF k = task.key THEN NoHold ELSE last[k]]
        /\ UNCHANGED <<stock, txns, logs, declared, deducted, conversions, audit, sink, terminals>>

ConsumeWrite(t) ==
    LET task == tasks[t]
    IN  /\ task.pc = "consume_write"
        /\ stock' = [stock EXCEPT ![task.key] =
              [@ EXCEPT !.quantity = ConsumeQuantity(task.snap, task.qty),
                        !.reserved_quantity = ConsumeReserved(task.snap, task.qty)]]
        /\ logs' = Commit(task)
        /\ deducted' =
              IF task.op = "consume"
              THEN deducted
              ELSE [deducted EXCEPT ![txns[task.tid].event_id] = @ + 1]
        /\ tasks' = [tasks EXCEPT ![t] =
              IF task.op = "consume"
              THEN Respond(task, OkBool(TRUE))
              ELSE [task EXCEPT !.pc = "confirm_commit"]]
        /\ UNCHANGED <<txns, declared, conversions, audit, sink, last, terminals>>

\* ------------------------------- TransactionService.create_sale_transaction
StartCreate(t) ==
    /\ CanStart(t)
    /\ \E d \in Payloads :
          /\ tasks' = [tasks EXCEPT ![t] =
              [IdleTask EXCEPT !.op = "create", !.pc = "create_select", !.data = d]]
    /\ UNCHANGED <<stock, txns, logs, declared, deducted, conversions, audit, sink, last, terminals>>

\* POST /transactions/ with any body that the schema accepts
StartCreateAny(t) ==
    /\ CanStart(t)
    /\ \E d \in AnyPayloads :
          /\ tasks' = [tasks EXCEPT ![t] =
              [IdleTask EXCEPT !.op = "create", !.pc = "create_select", !.data = d]]
    /\ UNCHANGED <<stock, txns, logs, declared, deducted, conversions, audit, sink, last, terminals>>

\* mutant of create: the product of the payload is looked up before the event_id
CreateSelect_ValidatesFirst(t) ==
    LET task == tasks[t]
        id == ByEventId(task.data.event_id)
    IN  /\ task.pc = "create_select"
        /\ tasks' = [tasks EXCEPT ![t] =
              IF ~ProductExists(task.data.product_id)
              THEN Raise(task, Err("ValueError", "product_not_exist"))
              ELSE IF id # 0
              THEN CreateReturn(task, id, txns[id].status)
              ELSE [task EXCEPT !.pc = "create_insert"]]
        /\ UNCHANGED <<stock, txns, logs, declared, deducted, conversions, audit, sink, last,
                       terminals>>

\* the idempotency lookup, then the product lookup (the catalog does not change)
CreateSelect(t) ==
    LET task == tasks[t]
        id == ByEventId(task.data.event_id)
    IN  /\ task.pc = "create_select"
        /\ tasks' = [tasks EXCEPT ![t] =
              IF id # 0
              THEN CreateReturn(task, id, txns[id].status)
              ELSE IF ~ProductExists(task.data.product_id)
              THEN Raise(task, Err("ValueError", "product_not_exist"))
              ELSE [task EXCEPT !.pc = "create_insert"]]
        /\ UNCHANGED <<stock, txns, logs, declared, deducted, conversions, audit, sink, last, terminals>>

\* db.add(transaction); commit.  event_id is a unique column: the INSERT of an
\* event_id another session has inserted meanwhile is refused by the database, and so
\* is the INSERT of a location_id that the locations table does not have
CreateInsert(t) ==
    LET task == tasks[t]
        id == Len(txns) + 1
    IN  /\ task.pc = "create_insert"
        /\ IF ByEventId(task.data.event_id) # 0
           THEN /\ tasks' = [tasks EXCEPT ![t] = Raise(task, Err("IntegrityError", "event_id_unique"))]
                /\ UNCHANGED <<txns, logs, audit>>
           ELSE IF ~LocationExists(task.data.location_id)
           THEN /\ tasks' = [tasks EXCEPT ![t] = Raise(task, Err("IntegrityError", "location_fk"))]
                /\ UNCHANGED <<txns, logs, audit>>
           ELSE /\ txns' = Append(txns,
                      [event_id |-> task.data.event_id,
                       product_id |-> task.data.product_id,
                       location_id |-> task.data.location_id,
                       converted_quantity |-> task.data.converted_quantity,
                       status |-> PENDING,
                       processed_at |-> FALSE])
                /\ logs' = Commit(task)
                /\ audit' = AuditWrite(<<"sale_transactions", id, "INSERT">>)
                /\ tasks' = [tasks EXCEPT ![t] = AfterAudit(CreateReturn(task, id, PENDING), "INSERT")]
        /\ UNCHANGED <<stock, declared, deducted, conversions, sink, last, terminals>>

\* ----------------------------------- TransactionService.confirm_transaction
StartConfirm(t) ==
    /\ CanStart(t)
    /\ \E id \in EventIds :
          /\ tasks' = [tasks EXCEPT ![t] =
              [IdleTask EXCEPT !.op = "confirm", !.pc = "confirm_get", !.tid = id]]
    /\ UNCHANGED <<stock, txns, logs, declared, deducted, conversions, audit, sink, last, terminals>>

\* db.get, the two checks, and the arguments of the consume_stock call
ConfirmGet(t) ==
    LET task == tasks[t]
    IN  /\ task.pc = "confirm_get"
        /\ tasks' = [tasks EXCEPT ![t] =
              IF ~TxnExists(task.tid)
              THEN Raise(task, Err("ValueError", "transaction_not_exist"))
              ELSE IF NotPending(txns[task.tid].status)
              THEN Raise(task, Err("ValueError", "cannot_confirm_status"))
              ELSE [task EXCEPT !.pc = "consume_read",
                                !.key = <<txns[task.tid].product_id, txns[task.tid].location_id>>,
                                !.qty = txns[task.tid].converted_quantity]]
        /\ UNCHANGED <<stock, txns, logs, declared, deducted, conversions, audit, sink, last, terminals>>

\* mutant of the except clause: the status is set, processed_at is not
ConfirmFail_NoStamp(t) ==
    LET task == tasks[t]
    IN  /\ task.pc = "confirm_fail"
        /\ txns' = [txns EXCEPT ![task.tid].status = FAILED]
        /\ logs' = Commit(task)
        /\ audit' = AuditWrite(<<"sale_transactions", task.tid, "UPDATE">>)
        /\ tasks' = [tasks EXCEPT ![t] =
              AfterAudit(Raise(task, Err("InsufficientStockError", "insufficient")), "UPDATE")]
        /\ UNCHANGED <<stock, declared, deducted, conversions, sink, last, terminals>>

\* except InsufficientStockError: status = FAILED, processed_at, commit, raise e
ConfirmFail(t) ==
    LET task == tasks[t]
    IN  /\ task.pc = "confirm_fail"
        /\ txns' = [txns EXCEPT ![task.tid].status = FAILED, ![task.tid].processed_at = TRUE]
        /\ logs' = Commit(task)
        /\ audit' = AuditWrite(<<"sale_transactions", task.tid, "UPDATE">>)
        /\ tasks' = [tasks EXCEPT ![t] =
              AfterAudit(Raise(task, Err("InsufficientStockError", "insufficient")), "UPDATE")]
        /\ UNCHANGED <<stock, declared, deducted, conversions, sink, last, terminals>>

\* status = CONFIRMED, processed_at, commit
ConfirmCommit(t) ==
    LET task == tasks[t]
    IN  /\ task.pc = "confirm_commit"
        /\ txns' = [txns EXCEPT ![task.tid].status = CONFIRMED, ![task.tid].processed_at = TRUE]
        /\ logs' = Commit(task)
        /\ audit' = AuditWrite(<<"sale_transactions", task.tid, "UPDATE">>)
        /\ tasks' = [tasks EXCEPT ![t] =
              AfterAudit(IF task.op = "reconcile"
                         THEN Succeed(task)
                         ELSE Respond(task, OkTxn(task.tid, CONFIRMED)), "UPDATE")]
        /\ UNCHANGED <<stock, declared, deducted, conversions, sink, last, terminals>>

\* ------------------------------------ TransactionService.cancel_transaction
StartCancel(t) ==
    /\ CanStart(t)
    /\ \E id \in EventIds :
          /\ tasks' = [tasks EXCEPT ![t] =
              [IdleTask EXCEPT !.op = "cancel", !.pc = "cancel_get", !.tid = id]]
    /\ UNCHANGED <<stock, txns, logs, declared, deducted, conversions, audit, sink, last, terminals>>

CancelGet(t) ==
    LET task == tasks[t]
    IN  /\ task.pc = "cancel_get"
        /\ tasks' = [tasks EXCEPT ![t] =
              IF ~TxnExists(task.tid)
              THEN Raise(task, Err("ValueError", "transaction_not_exist"))
              ELSE IF NotPending(txns[task.tid].status)
              THEN Raise(task, Err("ValueError", "cannot_cancel_status"))
              ELSE [task EXCEPT !.pc = "release_read",
                                !.key = <<txns[task.tid].product_id, txns[task.tid].location_id>>,
                                !.qty = txns[task.tid].converted_quantity]]
        /\ UNCHANGED <<stock, txns, logs, declared, deducted, conversions, audit, sink, last, terminals>>

CancelCommit(t) ==
    LET task == tasks[t]
    IN  /\ task.pc = "cancel_commit"
        /\ txns' = [txns EXCEPT ![task.tid].status = CANCELLED, ![task.tid].processed_at = TRUE]
        /\ logs' = Commit(task)
        /\ audit' = AuditWrite(<<"sale_transactions", task.tid, "UPDATE">>)
        /\ tasks' = [tasks EXCEPT ![t] = AfterAudit(Respond(task, OkTxn(task.tid, CANCELLED)), "UPDATE")]
        /\ UNCHANGED <<stock, declared, deducted, conversions, sink, last, terminals>>

\* -------------------------------- TransactionService.reconcile_transactions
\* a reconcile request of terminal Terminal1 that names itself in its body
StartReconcile(t) ==
    /\ CanStart(t)
    /\ Len(logs) < MaxLogs
    /\ \E b \in Batches :
          /\ tasks' = [tasks EXCEPT ![t] =
                [IdleTask EXCEPT !.op = "reconcile", !.pc = "recon_open", !.batch = b,
                                 !.terminal = Terminal1, !.terminal_id = Terminal1]]
    /\ UNCHANGED <<stock, txns, logs, declared, deducted, conversions, audit, sink, last, terminals>>

\* the log entry is added and flushed (it gets its id), the counters start at 0
ReconcileOpen(t) ==
    LET task == tasks[t]
        id == Len(logs) + 1
    IN  /\ task.pc = "recon_open"
        /\ logs' = Append(logs,
              [status |-> "running", processed_count |-> 0, success_count |-> 0,
               failed_count |-> 0, committed |-> FALSE, terminal_id |-> task.terminal_id])
        /\ audit' = AuditWrite(<<"reconciliation_logs", id, "INSERT">>)
        /\ tasks' = [tasks EXCEPT ![t] =
              AfterAudit(NextItem([task EXCEPT !.log = id, !.base = Len(txns)]), "INSERT")]
        /\ UNCHANGED <<stock, txns, declared, deducted, conversions, sink, last, terminals>>

\* mutant of the finalization: the log keeps its status and its zero counters
ReconcileClose_StaysRunning(t) ==
    LET task == tasks[t]
    IN  /\ task.pc = "recon_close"
        /\ logs' = [logs EXCEPT ![task.log].committed = TRUE]
        /\ audit' = AuditWrite(<<"reconciliation_logs", task.log, "UPDATE">>)
        /\ tasks' = [tasks EXCEPT ![t] = AfterAudit(Respond(task,
              [NoResult EXCEPT !.kind = "ok", !.id = task.log, !.status = "completed",
                               !.processed_count = task.processed_count,
                               !.success_count = task.success_count,
                               !.failed_count = task.failed_count]), "UPDATE")]
        /\ UNCHANGED <<stock, txns, declared, deducted, conversions, sink, last, terminals>>

\* after the loop: the counters and "completed" go to the log, commit, the result
ReconcileClose(t) ==
    LET task == tasks[t]
    IN  /\ task.pc = "recon_close"
        /\ logs' = [logs EXCEPT ![task.log] =
              [status |-> "completed", processed_count |-> task.processed_count,
               success_count |-> task.success_count, failed_count |-> task.failed_count,
               committed |-> TRUE, terminal_id |-> logs[task.log].terminal_id]]
        /\ audit' = AuditWrite(<<"reconciliation_logs", task.log, "UPDATE">>)
        /\ tasks' = [tasks EXCEPT ![t] = AfterAudit(Respond(task,
              [NoResult EXCEPT !.kind = "ok", !.id = task.log, !.status = "completed",
                               !.processed_count = task.processed_count,
                               !.success_count = task.success_count,
                               !.failed_count = task.failed_count]), "UPDATE")]
        /\ UNCHANGED <<stock, txns, declared, deducted, conversions, sink, last, terminals>>

\* ------------------------------------------- ProductService.create_stock_level
\* POST /stock/ with a StockLevelCreate body; the schema puts no constraint on
\* quantity and reserved_quantity
StartDeclare(t) ==
    /\ CanStart(t)
    /\ \E k \in StockKeys, q \in DeclQtys, r \in DeclQtys :
          /\ tasks' = [tasks EXCEPT ![t] =
              [IdleTask EXCEPT !.op = "declare", !.pc = "declare_select", !.key = k,
                               !.stock_data = Row(q, r)]]
          /\ last' = [last EXCEPT ![k] = NoHold]
    /\ UNCHANGED <<stock, txns, logs, declared, deducted, conversions, audit, sink, terminals>>

\* "Check if stock level already exists": scalar_one_or_none() gives the row or None,
\* and raises when the pair has more than one row
DeclareSelect(t) ==
    LET task == tasks[t]
    IN  /\ task.pc = "declare_select"
        /\ tasks' = [tasks EXCEPT ![t] =
              IF GetStockLevel(task.key).rows > 1
              THEN Respond(task, Err("MultipleResultsFound", "stock_level"))
              ELSE [task EXCEPT !.pc = "declare_write", !.snap = GetStockLevel(task.key)]]
        /\ UNCHANGED <<stock, txns, logs, declared, deducted, conversions, audit, sink, last, terminals>>

\* the UPDATE of the row that was found (by its id), or the INSERT of a new one, with
\* the values of the body; commit.  The INSERT goes through also when another session
\* has inserted a row for the pair since the SELECT: no constraint refuses it
DeclareWrite(t) ==
    LET task == tasks[t]
    IN  /\ task.pc = "declare_write"
        /\ stock' = [stock EXCEPT ![task.key] =
              IF task.snap.exists
              THEN [@ EXCEPT !.quantity = task.stock_data.quantity,
                             !.reserved_quantity = task.stock_data.reserved_quantity]
              ELSE IF stock[task.key].exists
              THEN [@ EXCEPT !.rows = @ + 1]
              ELSE Row(task.stock_data.quantity, task.stock_data.reserved_quantity)]
        /\ declared' =
              IF task.snap.exists \/ ~stock[task.key].exists
              THEN [declared EXCEPT ![task.key] = task.stock_data.quantity]
              ELSE declared
        /\ audit' =
              IF task.snap.exists
              THEN audit
              ELSE AuditWrite(<<"stock_levels", stock[task.key].rows + 1, "INSERT">>)
        /\ tasks' = [tasks EXCEPT ![t] =
              IF task.snap.exists
              THEN Respond(task, OkBool(TRUE))
              ELSE AfterAudit(Respond(task, OkBool(TRUE)), "INSERT")]
        /\ UNCHANGED <<txns, logs, deducted, conversions, sink, last, terminals>>

\* the commit after the loop of reconcile_transactions fails: the exception leaves
\* the call, which has no except clause around it; the log row stays as the last
\* commit of an item published it, or is rolled back when no item committed
ReconcileCloseError(t) ==
    LET task == tasks[t]
    IN  /\ task.pc = "recon_close"
        /\ logs' = IF logs[task.log].committed
                   THEN logs
                   ELSE SubSeq(logs, 1, task.log - 1) \o SubSeq(logs, task.log + 1, Len(logs))
        /\ tasks' = [tasks EXCEPT ![t] =
              Respond(task, Err("OperationalError", "storage"))]
        /\ UNCHANGED <<stock, txns, declared, deducted, conversions, audit, sink, last,
                       terminals>>

\* ------------------------------------------------- storage failures in confirm
\* a storage round trip raises (connection loss): the statements of the session's open
\* database transaction are rolled back, what an earlier commit published stays, and
\* the exception, which no except clause of confirm_transaction takes, leaves the call
StorageError == Err("OperationalError", "storage")

\* consume_stock's UPDATE (or its commit) fails
ConsumeWriteError(t) ==
    LET task == tasks[t]
    IN  /\ task.pc = "consume_write"
        /\ task.op # "consume"
        /\ tasks' = [tasks EXCEPT ![t] = Raise(task, StorageError)]
        /\ UNCHANGED <<stock, txns, logs, declared, deducted, conversions, audit, sink, last, terminals>>

\* the commit of status = FAILED fails
ConfirmFailError(t) ==
    LET task == tasks[t]
    IN  /\ task.pc = "confirm_fail"
        /\ tasks' = [tasks EXCEPT ![t] = Raise(task, StorageError)]
        /\ UNCHANGED <<stock, txns, logs, declared, deducted, conversions, audit, sink, last, terminals>>

\* the commit of status = CONFIRMED fails, after consume_stock has committed
ConfirmCommitError(t) ==
    LET task == tasks[t]
    IN  /\ task.pc = "confirm_commit"
        /\ tasks' = [tasks EXCEPT ![t] = Raise(task, StorageError)]
        /\ UNCHANGED <<stock, txns, logs, declared, deducted, conversions, audit, sink, last, terminals>>

\* ---------------------------------------- POST /transactions/reconcile, the gate
\* require_terminal_auth, then the handler.  The request carries the header
\* X-Terminal-ID (h), a signature made with the secret of terminal k, and a body
\* whose terminal_id is b.  verify_hmac_signature refuses a terminal it does not
\* find and a signature that the secret of terminal h does not give; otherwise it
\* stamps last_heartbeat on terminal h, commits, and the handler calls
\* reconcile_transactions(reconciliation_request.terminal_id, ...)
ReconcileRequest(t) ==
    /\ CanStart(t)
    /\ Len(logs) < MaxLogs
    /\ \A r \in Registered : terminals[r].last_heartbeat < MaxBeats
    /\ \E h \in Terminals \cup {"unknown"}, k \in Terminals, b \in Terminals, batch \in GateBatches :
          IF h \in Terminals /\ k = h
          THEN /\ audit' = AuditWrite(<<"terminals", h, "UPDATE">>)
               /\ terminals' = [terminals EXCEPT ![h].last_heartbeat = @ + 1]
               /\ tasks' = [tasks EXCEPT ![t] =
                     AfterAudit([IdleTask EXCEPT !.op = "reconcile", !.pc = "recon_open",
                                                 !.batch = batch, !.terminal = h,
                                                 !.terminal_id = b], "UPDATE")]
          ELSE /\ audit' = audit
               /\ terminals' = terminals
               /\ tasks' = [tasks EXCEPT ![t] =
                     Respond([IdleTask EXCEPT !.op = "reconcile_request"],
                             Err("HTTPException",
                                 IF h \in Terminals THEN "invalid_signature"
                                                     ELSE "invalid_terminal"))]
    /\ UNCHANGED <<stock, txns, logs, declared, deducted, conversions, sink, last>>

\* ------------------------------------------------------ verify_hmac_signature
\* a request arrives with its headers and body
StartVerify(t) ==
    /\ CanStart(t)
    /\ \A r \in Registered : terminals[r].last_heartbeat < MaxBeats
    /\ \E h \in Registered \cup {"unknown", "missing"}, ts \in Timestamps, b \in Bodies :
          \E sg \in Signatures(ts) :
              tasks' = [tasks EXCEPT ![t] =
                  [IdleTask EXCEPT !.op = "verify", !.pc = "verify",
                                   !.request = [terminal_id |-> h, timestamp |-> ts,
                                                signature |-> sg, body |-> b]]]
    /\ UNCHANGED <<stock, txns, logs, declared, deducted, conversions, audit, sink, last,
                   terminals>>

\* the checks of verify_hmac_signature that raise HTTPException(401) before the
\* signature is computed, in the order of the code; "none" when all of them pass
Unauthorized(req) ==
    IF req.terminal_id = "missing" \/ req.timestamp.kind = "missing"
       \/ req.signature.kind = "missing"
    THEN "missing_headers"
    ELSE IF req.timestamp.kind = "malformed"
    THEN "invalid_timestamp"
    ELSE IF Abs(req.timestamp.skew) * 60 > TERMINAL_TIME_WINDOW_MINUTES * 60
    THEN "outside_window"
    ELSE IF req.terminal_id \notin Registered
    THEN "invalid_terminal"
    ELSE IF ~terminals[req.terminal_id].is_active
    THEN "invalid_terminal"
    ELSE "none"

\* the whole of verify_hmac_signature: the header checks, the terminal lookup, the
\* comparison with the expected signature (hmac.compare_digest raises TypeError for a
\* str with a non-ASCII character), then the heartbeat stamp and its commit
VerifyHmac(t) ==
    LET task == tasks[t]
        req == task.request
        expected_signature ==
            calculate_hmac_signature(Message("POST", ReconcilePath, req.timestamp, req.body),
                                     SecretOf(req.terminal_id))
    IN  /\ task.pc = "verify"
        /\ IF Unauthorized(req) # "none"
           THEN /\ tasks' = [tasks EXCEPT ![t] =
                      Respond(task, Err("HTTPException_401", Unauthorized(req)))]
                /\ UNCHANGED <<terminals, audit>>
           ELSE IF req.signature.kind = "non_ascii"
           THEN /\ tasks' = [tasks EXCEPT ![t] = Respond(task, Err("TypeError", "compare_digest"))]
                /\ UNCHANGED <<terminals, audit>>
           ELSE IF req.signature.digest # expected_signature
           THEN /\ tasks' = [tasks EXCEPT ![t] =
                      Respond(task, Err("HTTPException_401", "invalid_signature"))]
                /\ UNCHANGED <<terminals, audit>>
           ELSE /\ terminals' = [terminals EXCEPT ![req.terminal_id].last_heartbeat = @ + 1]
                /\ audit' = AuditWrite(<<"terminals", req.terminal_id, "UPDATE">>)
                /\ tasks' = [tasks EXCEPT ![t] =
                      AfterAudit(Respond(task, [NoResult EXCEPT !.kind = "ok",
                                                                !.detail = req.terminal_id]),
                                 "UPDATE")]
        /\ UNCHANGED <<stock, txns, logs, declared, deducted, conversions, sink, last>>

\* ------------------------------------------------- ProductService.convert_units
StartConvert(t) ==
    /\ CanStart(t)
    /\ \E p \in ConvProducts, from \in Units, to \in Units, q \in SaleQtys :
          tasks' = [tasks EXCEPT ![t] =
              [IdleTask EXCEPT !.op = "convert", !.pc = "convert_select",
                               !.conv = [product_id |-> p, from_unit |-> from, to_unit |-> to,
                                         quantity |-> Frac(q, 1)]]]
    /\ UNCHANGED <<stock, txns, logs, declared, deducted, conversions, audit, sink, last, terminals>>

\* the SELECT of the direct row, of the reverse row when there is none, and the result
ConvertSelect(t) ==
    LET task == tasks[t]
    IN  /\ task.pc = "convert_select"
        /\ tasks' = [tasks EXCEPT ![t] =
              Respond(task, ConvertUnits(conversions, task.conv.product_id, task.conv.from_unit,
                                         task.conv.to_unit, task.conv.quantity))]
        /\ UNCHANGED <<stock, txns, logs, declared, deducted, conversions, audit, sink, last, terminals>>

\* the caller converts what a call returned back to the unit it came from
ConvertBack(t) ==
    LET task == tasks[t]
    IN  /\ task.op = "convert"
        /\ task.pc = "done"
        /\ task.result.kind = "ok"
        /\ task.first = NoConv
        /\ tasks' = [tasks EXCEPT ![t] =
              [IdleTask EXCEPT !.op = "convert", !.pc = "convert_select", !.first = task.conv,
                               !.conv = [product_id |-> task.conv.product_id,
                                         from_unit |-> task.conv.to_unit,
                                         to_unit |-> task.conv.from_unit,
                                         quantity |-> task.result.value]]]
        /\ UNCHANGED <<stock, txns, logs, declared, deducted, conversions, audit, sink, last, terminals>>

\* ------------------------------------------------------ the audit connection
\* the audit connection goes down or comes back: engine.connect() or the INSERT
\* into audit_logs raises while it is down
SinkToggle ==
    /\ sink' = ~sink
    /\ UNCHANGED <<stock, txns, logs, tasks, declared, deducted, conversions, audit, last, terminals>>

\* the response has been sent; the session is closed and free for the next request
Return(t) ==
    /\ tasks[t].pc = "done"
    /\ tasks' = [tasks EXCEPT ![t] = IdleTask]
    /\ UNCHANGED <<stock, txns, logs, declared, deducted, conversions, audit, sink, last, terminals>>

\* ---------------------------------------------------------- specifications
LedgerStep(t) ==
    \/ StartReserve(t) \/ ReserveRead(t) \/ ReserveWrite(t)
    \/ StartRelease(t) \/ ReleaseRead(t) \/ ReleaseWrite(t)
    \/ StartConsume(t) \/ ConsumeRead(t) \/ ConsumeWrite(t)

TransactionStep(t) ==
    \/ StartCreate(t) \/ CreateSelect(t) \/ CreateInsert(t)
    \/ StartConfirm(t) \/ ConfirmGet(t) \/ ConfirmFail(t) \/ ConfirmCommit(t)
    \/ StartCancel(t) \/ CancelGet(t) \/ CancelCommit(t)

ReconcileStep(t) ==
    \/ StartReconcile(t) \/ ReconcileOpen(t) \/ ReconcileClose(t)

\* the steps of create and confirm, which reconcile runs for every item
ItemStep(t) ==
    \/ CreateSelect(t) \/ CreateInsert(t)
    \/ ConfirmGet(t) \/ ConsumeRead(t) \/ ConsumeWrite(t)
    \/ ConfirmFail(t) \/ ConfirmCommit(t)

\* the ledger steps that confirm and cancel run
SharedLedgerStep(t) ==
    \/ ReleaseRead(t) \/ ReleaseWrite(t)
    \/ ConsumeRead(t) \/ ConsumeWrite(t)

\* sale requests (create, confirm, cancel) of several sessions, interleaved at their
\* storage round trips
Next ==
    \E t \in TaskIds : TransactionStep(t) \/ SharedLedgerStep(t) \/ Return(t)

Spec == Init /\ [][Next]_vars

\* ledger calls (reserve, release, consume) of several sessions, interleaved
LedgerNext ==
    \E t \in TaskIds : LedgerStep(t) \/ Return(t)

LedgerSpec == Init /\ [][LedgerNext]_vars

\* requests run one after another
SeqNext ==
    LedgerStep(1) \/ TransactionStep(1) \/ Return(1)

SeqSpec == Init /\ [][SeqNext]_vars

\* reconciliation batches run one after another
ReconNext ==
    ReconcileStep(1) \/ ItemStep(1) \/ Return(1)

ReconSpec == Init /\ [][ReconNext]_vars

DeclareStep(t) ==
    \/ StartDeclare(t) \/ DeclareSelect(t) \/ DeclareWrite(t)

\* stock declarations and ledger calls run one after another
DeclareNext ==
    DeclareStep(1) \/ LedgerStep(1) \/ Return(1)

DeclareSpec == Init /\ [][DeclareNext]_vars

FaultStep(t) ==
    \/ ConsumeWriteError(t) \/ ConfirmFailError(t) \/ ConfirmCommitError(t)

\* sale requests run one after another; a storage round trip of confirm may fail
FaultNext ==
    TransactionStep(1) \/ SharedLedgerStep(1) \/ FaultStep(1) \/ Return(1)

FaultSpec == Init /\ [][FaultNext]_vars

\* stock declarations of several sessions, interleaved at their storage round trips
DeclareConcNext ==
    \E t \in TaskIds : DeclareStep(t) \/ Return(t)

DeclareConcSpec == Init /\ [][DeclareConcNext]_vars

\* the unit_conversions tables of at most MaxConvRows rows, one row at most per
\* (product_id, from_unit, to_unit)
ConversionTables ==
    {[k \in ConvKeys |-> IF k \in DOMAIN f THEN f[k] ELSE 0] :
        f \in UNION {[S -> Factors] : S \in {T \in SUBSET ConvKeys : Cardinality(T) <= MaxConvRows}}}

\* the state after construction with a conversion table in place
ConvInit ==
    /\ stock = [k \in StockKeys |-> NoRow]
    /\ txns = <<>>
    /\ logs = <<>>
    /\ tasks = [t \in TaskIds |-> IdleTask]
    /\ declared = [k \in StockKeys |-> 0]
    /\ deducted = [e \in EventIds |-> 0]
    /\ conversions \in ConversionTables
    /\ audit = {}
    /\ sink = TRUE
    /\ last = [k \in StockKeys |-> NoHold]
    /\ terminals = [r \in Registered |-> [is_active |-> r \in Terminals, last_heartbeat |-> 0]]

ConvertStep(t) ==
    \/ StartConvert(t) \/ ConvertSelect(t) \/ ConvertBack(t)

\* conversion calls, one after another
ConvNext ==
    ConvertStep(1) \/ Return(1)

ConvSpec == ConvInit /\ [][ConvNext]_vars

\* sale requests run one after another while the audit connection comes and goes
AuditNext ==
    TransactionStep(1) \/ SharedLedgerStep(1) \/ SinkToggle \/ Return(1)

AuditSpec == Init /\ [][AuditNext]_vars

\* reconcile requests arrive at the gate, one after another
GateNext ==
    ReconcileRequest(1) \/ ReconcileOpen(1) \/ ReconcileClose(1) \/ ItemStep(1) \/ Return(1)

GateSpec == Init /\ [][GateNext]_vars

\* create, confirm, cancel and reconcile requests, one after another
MixNext ==
    \/ TransactionStep(1) \/ SharedLedgerStep(1)
    \/ ReconcileRequest(1) \/ ReconcileOpen(1) \/ ReconcileClose(1)
    \/ Return(1)

MixSpec == Init /\ [][MixNext]_vars

\* sale requests with every body the schema accepts, one after another
SchemaNext ==
    \/ StartCreateAny(1) \/ CreateSelect(1) \/ CreateInsert(1)
    \/ StartConfirm(1) \/ ConfirmGet(1) \/ ConfirmFail(1) \/ ConfirmCommit(1)
    \/ StartCancel(1) \/ CancelGet(1) \/ CancelCommit(1)
    \/ SharedLedgerStep(1)
    \/ Return(1)

SchemaSpec == Init /\ [][SchemaNext]_vars

\* reconcile requests, one after another; the commit that ends a call may fail
ReconFaultNext ==
    \/ ReconcileRequest(1) \/ ReconcileOpen(1) \/ ReconcileClose(1) \/ ReconcileCloseError(1)
    \/ ItemStep(1) \/ Return(1)

ReconFaultSpec == Init /\ [][ReconFaultNext]_vars

\* terminal requests at the HMAC gate, one after another
HmacNext ==
    StartVerify(1) \/ VerifyHmac(1) \/ Return(1)

HmacSpec == Init /\ [][HmacNext]_vars

\* =================================================================== claims
Terminal(status) == status \in {CONFIRMED, CANCELLED, FAILED}

DoneOk(t, op) ==
    /\ tasks[t].op = op
    /\ tasks[t].pc = "done"
    /\ tasks[t].result.kind = "ok"

DoneErr(t, op, e, d) ==
    /\ tasks[t].op = op
    /\ tasks[t].pc = "done"
    /\ tasks[t].result = Err(e, d)

\* ---- C1
C1_Deducted ==
    /\ \A e \in EventIds : deducted[e] <= 1
    /\ \A t \in TaskIds :
          \* a confirm that found the row and returned has deducted, once, from what it read
          /\ (DoneOk(t, "confirm") /\ tasks[t].snap.exists) =>
                /\ txns[tasks[t].tid].status = CONFIRMED
                /\ stock[tasks[t].key].quantity = tasks[t].snap.quantity - tasks[t].qty
                /\ deducted[txns[tasks[t].tid].event_id] = 1
          \* confirm raises InsufficientStock only when q exceeds what is available
          /\ DoneErr(t, "confirm", "InsufficientStockError", "insufficient") =>
                Available(tasks[t].snap) < tasks[t].qty

C1_LaterConfirm ==
    \A t \in TaskIds :
        (/\ tasks[t].op = "confirm"
         /\ tasks[t].pc = "confirm_get"
         /\ TxnExists(tasks[t].tid)
         /\ txns[tasks[t].tid].status = CONFIRMED
         /\ tasks'[t] # tasks[t])
        => /\ tasks'[t] = Respond(tasks[t], Err("ValueError", "cannot_confirm_status"))
           /\ stock' = stock
           /\ deducted' = deducted

\* C1: with requests run one after another, a confirm of a pending transaction
\* whose quantity q the row can supply sets on-hand to Q - q (Q the on-hand it
\* read) and the status to confirmed; every later confirm of that transaction
\* fails with the status error and leaves the row as it is: q is deducted once.
C1_ConfirmConsumesOnce == []C1_Deducted /\ [][C1_LaterConfirm]_vars

\* a second confirm has been refused after the first took q > 0 from the row
C1_Witness ==
    \E t \in TaskIds :
        /\ DoneErr(t, "confirm", "ValueError", "cannot_confirm_status")
        /\ txns[tasks[t].tid].status = CONFIRMED
        /\ deducted[txns[tasks[t].tid].event_id] = 1
        /\ stock[RowKey].exists
        /\ stock[RowKey].quantity = declared[RowKey] - txns[tasks[t].tid].converted_quantity

\* ---- C2
RECURSIVE ConsumedBy(_)
\* the sum of qty over the consume calls in S that have just returned True
ConsumedBy(S) ==
    IF S = {} THEN 0
    ELSE LET t == CHOOSE x \in S : TRUE
         IN  (IF DoneOk(t, "consume") /\ tasks[t].result.ret THEN tasks[t].qty ELSE 0)
             + ConsumedBy(S \ {t})

\* C2: concurrent ledger calls on one key are serializable: what the consume
\* calls that reported success took is missing from the on-hand quantity (no
\* successful decrement is lost), and on-hand never drops below zero.
C2_NoLostUpdate ==
    stock[RowKey].exists =>
        /\ stock[RowKey].quantity >= 0
        /\ ConsumedBy(TaskIds) <= declared[RowKey] - stock[RowKey].quantity

\* ---- C3
\* C3: with calls run one after another from a row with 0 <= reserved <= quantity,
\* 0 <= reserved_quantity <= quantity holds after every reserve, release and consume.
C3_ReservationInvariant ==
    \A k \in StockKeys :
        stock[k].exists =>
            /\ 0 <= stock[k].reserved_quantity
            /\ stock[k].reserved_quantity <= stock[k].quantity

\* a reserve has just taken the last available units: reserved = quantity > 0
C3_Witness ==
    \E t \in TaskIds :
        /\ DoneOk(t, "reserve")
        /\ tasks[t].qty > 0
        /\ stock[tasks[t].key].reserved_quantity = stock[tasks[t].key].quantity

\* ---- C4
C4_OnePerEvent ==
    /\ \A i, j \in 1..Len(txns) : txns[i].event_id = txns[j].event_id => i = j
    /\ \A t \in TaskIds :
          DoneOk(t, "create") =>
              /\ tasks[t].result.id \in 1..Len(txns)
              /\ txns[tasks[t].result.id].event_id = tasks[t].data.event_id

C4_SameId ==
    \* a record keeps its id and its event_id
    /\ \A i \in 1..Len(txns) : i <= Len(txns') /\ txns'[i].event_id = txns[i].event_id
    \* a create whose event_id is stored returns that record and adds none
    /\ \A t \in TaskIds :
          (/\ tasks[t].op = "create"
           /\ tasks[t].pc = "create_select"
           /\ ByEventId(tasks[t].data.event_id) # 0
           /\ tasks'[t] # tasks[t])
          => /\ tasks'[t].pc = "done"
             /\ tasks'[t].result.kind = "ok"
             /\ tasks'[t].result.id = ByEventId(tasks[t].data.event_id)
             /\ txns' = txns

\* C4: with requests run one after another, every create with an event_id
\* that is stored returns the id of that one record, and there is exactly one
\* record per event_id that a create accepted.
C4_IdempotentCreate == []C4_OnePerEvent /\ [][C4_SameId]_vars

\* a create has returned a record that an earlier create made and a confirm settled
C4_Witness ==
    \E t \in TaskIds :
        /\ DoneOk(t, "create")
        /\ txns[tasks[t].result.id].status = CONFIRMED
        /\ Len(txns) = 2

\* ---- C5
C5_Refused ==
    \A t \in TaskIds :
        (/\ tasks[t].pc \in {"confirm_get", "cancel_get"}
         /\ TxnExists(tasks[t].tid)
         /\ Terminal(txns[tasks[t].tid].status)
         /\ tasks'[t] # tasks[t])
        => /\ tasks'[t].pc = "done"
           /\ tasks'[t].result =
                 Err("ValueError",
                     IF tasks[t].op = "confirm" THEN "cannot_confirm_status"
                                                ELSE "cannot_cancel_status")
           /\ txns' = txns
           /\ stock' = stock

\* C5: a confirm or cancel call on a transaction whose status is confirmed,
\* cancelled or failed fails with the status error (the code's InvalidTransition:
\* ValueError "Cannot confirm/cancel transaction with status ...") and changes
\* neither a transaction record nor the stock ledger.
C5_TerminalRefusesCalls == [][C5_Refused]_vars

\* a cancel of a failed transaction has been refused
C5_Witness ==
    \E t \in TaskIds :
        /\ DoneErr(t, "cancel", "ValueError", "cannot_cancel_status")
        /\ txns[tasks[t].tid].status = FAILED

\* ---- C6
C6_Absorbing ==
    \A i \in 1..Len(txns) :
        Terminal(txns[i].status) => txns'[i].status = txns[i].status

\* C6: in every behaviour, also with concurrent confirm and cancel requests on
\* one pending transaction, a status that has become confirmed, cancelled or
\* failed never changes again.
C6_StatusChangesOnce == [][C6_Absorbing]_vars

\* ---- C7
\* C7: a confirm of a pending transaction whose converted_quantity exceeds
\* quantity - reserved_quantity of its row ends with the status failed and
\* processed_at stamped, the row as it was, and InsufficientStock raised; a
\* confirm returns normally only when the row could supply the quantity.
C7_InsufficientMarksFailed ==
    \A t \in TaskIds :
        /\ DoneErr(t, "confirm", "InsufficientStockError", "insufficient") =>
              /\ tasks[t].snap.exists
              /\ tasks[t].snap.quantity - tasks[t].snap.reserved_quantity < tasks[t].qty
              /\ txns[tasks[t].tid].status = FAILED
              /\ txns[tasks[t].tid].processed_at
              /\ stock[tasks[t].key] = tasks[t].snap
        /\ (DoneOk(t, "confirm") /\ stock[tasks[t].key].exists) =>
              /\ tasks[t].snap.exists
              /\ tasks[t].snap.quantity - tasks[t].snap.reserved_quantity >= tasks[t].qty
        /\ (tasks[t].op = "confirm" /\ tasks[t].pc = "done") =>
              \/ tasks[t].result.kind = "ok"
              \/ tasks[t].result.error = "InsufficientStockError"
              \/ tasks[t].result.error = "ValueError"

\* a confirm has failed for want of stock although the row holds some
C7_Witness ==
    \E t \in TaskIds :
        /\ DoneErr(t, "confirm", "InsufficientStockError", "insufficient")
        /\ txns[tasks[t].tid].status = FAILED
        /\ stock[tasks[t].key].quantity > 0

\* ---- C8
RECURSIVE DeductedQty(_)
\* what the confirms of records 1..n have taken: converted_quantity per deduction
DeductedQty(n) ==
    IF n = 0 THEN 0
    ELSE deducted[txns[n].event_id] * txns[n].converted_quantity + DeductedQty(n - 1)

\* C8: over any sequence of reconcile calls run one after another, the
\* converted_quantity of each event_id is deducted from on-hand at most once:
\* on-hand is what was declared less one converted_quantity per deducted event.
C8_AtMostOncePerEvent ==
    /\ \A e \in EventIds : deducted[e] <= 1
    /\ stock[RowKey].exists =>
          stock[RowKey].quantity = declared[RowKey] - DeductedQty(Len(txns))

\* a second batch that names one deducted event twice has run and created nothing
C8_Witness ==
    \E t \in TaskIds :
        /\ DoneOk(t, "reconcile")
        /\ tasks[t].log = 2
        /\ Len(tasks[t].batch) >= 2
        /\ tasks[t].batch[1].event_id = tasks[t].batch[2].event_id
        /\ deducted[tasks[t].batch[1].event_id] = 1
        /\ tasks[t].base = Len(txns)
        /\ stock[RowKey].exists

\* ---- C9
\* the event of item i was stored before the batch started
Stored(task, i) == ByEventId(task.batch[i].event_id) \in 1..task.base

\* item i or an earlier item of the batch names the event of i with an existing product
Creatable(task, i) ==
    \E j \in 1..i :
        /\ task.batch[j].event_id = task.batch[i].event_id
        /\ ProductExists(task.batch[j].product_id)

\* item i is the item of the batch that created the record of its event
Creator(task, i) ==
    /\ ProductExists(task.batch[i].product_id)
    /\ \A j \in 1..(i - 1) : ~Creatable(task, j) \/ task.batch[j].event_id # task.batch[i].event_id

\* item i failed: unknown product for an event not stored, or the confirm of the
\* record it created found the stock insufficient
ItemFailed(task, i) ==
    /\ ~Stored(task, i)
    /\ \/ ~Creatable(task, i)
       \/ /\ Creator(task, i)
          /\ txns[ByEventId(task.batch[i].event_id)].status = FAILED

FailedItems(task) == {i \in 1..Len(task.batch) : ItemFailed(task, i)}

InItem(task) ==
    task.pc \in {"create_select", "create_insert", "confirm_get", "consume_read",
                 "consume_write", "confirm_fail", "confirm_commit"}

\* the position of the item that created the record of event e
CreatorPos(task, e) ==
    CHOOSE i \in 1..Len(task.batch) : task.batch[i].event_id = e /\ Creator(task, i)

\* C10: a batch is applied strictly in submitted order, one item at a time: the
\* item in work is the idx-th of the list, every earlier item is settled (its
\* record is absent or not pending, unless the item in work names the same event
\* and has just created it), no later item has been touched (the records
\* created by the batch are those of items up to idx, in list order), and of two
\* records the batch created the later one is not confirmed at the cost of an
\* earlier one that asked for no more.
C10_SubmittedOrder ==
    \A t \in TaskIds :
        LET task == tasks[t]
            made == (task.base + 1)..Len(txns)
        IN  (task.op = "reconcile" /\ task.pc # "recon_open") =>
              /\ InItem(task) =>
                    /\ task.idx \in 1..Len(task.batch)
                    /\ task.data = task.batch[task.idx]
              /\ task.processed_count = task.idx
              /\ task.success_count + task.failed_count =
                    IF InItem(task) THEN task.idx - 1 ELSE task.idx
              /\ \A j \in 1..Len(task.batch) :
                    (j < task.idx \/ (j = task.idx /\ ~InItem(task))) =>
                        \/ ByEventId(task.batch[j].event_id) = 0
                        \/ txns[ByEventId(task.batch[j].event_id)].status # PENDING
                        \/ InItem(task) /\ task.batch[j].event_id = task.data.event_id
              /\ \A i \in made :
                    \E j \in 1..task.idx :
                        /\ task.batch[j].event_id = txns[i].event_id
                        /\ Creator(task, j)
              /\ \A i1, i2 \in made :
                    i1 < i2 =>
                        /\ CreatorPos(task, txns[i1].event_id) < CreatorPos(task, txns[i2].event_id)
                        /\ (/\ txns[i1].converted_quantity <= txns[i2].converted_quantity
                            /\ txns[i2].status = CONFIRMED)
                           => txns[i1].status # FAILED

\* stock sufficed for one of two equal requests: the earlier item is confirmed,
\* the later one failed
C10_Witness ==
    \E t \in TaskIds :
        /\ DoneOk(t, "reconcile")
        /\ Len(tasks[t].batch) >= 2
        /\ Len(txns) = tasks[t].base + 2
        /\ txns[tasks[t].base + 1].event_id = tasks[t].batch[1].event_id
        /\ txns[tasks[t].base + 2].event_id = tasks[t].batch[2].event_id
        /\ txns[tasks[t].base + 1].converted_quantity = txns[tasks[t].base + 2].converted_quantity
        /\ txns[tasks[t].base + 1].status = CONFIRMED
        /\ txns[tasks[t].base + 2].status = FAILED

\* ---- C11
\* C11: when a storage failure interrupts confirm, its partial effects are rolled
\* back in full: once no confirm of a transaction is in flight any more, the
\* quantity of a transaction that is still pending has not been taken from the
\* stock of its key (so a retry cannot deduct it a second time).
C11_RolledBackInFull ==
    \A i \in 1..Len(txns) :
        (txns[i].status = PENDING /\ deducted[txns[i].event_id] > 0) =>
            \E t \in TaskIds :
                /\ tasks[t].op = "confirm"
                /\ tasks[t].tid = i
                /\ tasks[t].pc = "confirm_commit"

\* ---- C12
\* the request whose handler takes the step
Acting(t) == tasks'[t] # tasks[t]

C12_Frame ==
    \A t \in TaskIds :
        Acting(t) =>
            \* on-hand changes only in the UPDATE of consume_stock, and only for its key
            /\ (\E k \in StockKeys : stock'[k].quantity # stock[k].quantity) =>
                  /\ tasks[t].pc = "consume_write"
                  /\ tasks[t].op \in {"confirm", "consume"}
                  /\ \A k \in StockKeys :
                        k # tasks[t].key => stock'[k].quantity = stock[k].quantity
            /\ tasks[t].op \in {"cancel", "reserve", "release"} =>
                  \A k \in StockKeys : stock'[k].quantity = stock[k].quantity
            /\ tasks[t].op = "create" => stock' = stock

\* C12: only the consume call (of confirm) reduces on-hand quantity: every step of
\* create, cancel, reserve and release leaves the on-hand quantity of every key as
\* it is, and every step of create leaves the whole stock ledger as it is.
C12_OnlyConsumeReduces == [][C12_Frame]_vars

\* a cancel has released a reservation and the on-hand quantity is what was declared
C12_Witness ==
    \E t \in TaskIds :
        /\ DoneOk(t, "cancel")
        /\ tasks[t].snap.exists
        /\ tasks[t].snap.reserved_quantity > 0
        /\ stock[tasks[t].key].reserved_quantity < tasks[t].snap.reserved_quantity
        /\ stock[tasks[t].key].quantity = declared[tasks[t].key]

\* ---- C13
C13_LogState ==
    \A t \in TaskIds :
        LET task == tasks[t]
        IN  task.op = "reconcile" =>
              /\ task.pc = "recon_open" => task.log = 0
              /\ task.pc # "recon_open" => task.log \in 1..Len(logs)
              \* while the items are processed the log is the running one opened at the start
              /\ task.pc \notin {"recon_open", "done"} =>
                    /\ logs[task.log].status = "running"
                    /\ logs[task.log].processed_count = 0
              /\ task.pc = "done" =>
                    /\ task.result.kind = "ok"
                    /\ task.result.id = task.log
                    /\ logs[task.log].status = "completed"
                    /\ logs[task.log].processed_count = Len(task.batch)
                    /\ logs[task.log].processed_count =
                          logs[task.log].success_count + logs[task.log].failed_count
                    /\ task.result.processed_count = logs[task.log].processed_count
                    /\ task.result.success_count = logs[task.log].success_count
                    /\ task.result.failed_count = logs[task.log].failed_count

C13_OneLog ==
    \A t \in TaskIds :
        Acting(t) =>
            \* a log is created by the opening step only, before the first item, as running
            /\ IF tasks[t].pc = "recon_open"
               THEN /\ Len(logs') = Len(logs) + 1
                    /\ logs'[Len(logs')].status = "running"
                    /\ tasks'[t].log = Len(logs')
                    /\ tasks[t].idx = 0 /\ tasks[t].processed_count = 0
                    /\ txns' = txns /\ stock' = stock
               ELSE Len(logs') = Len(logs)
            \* the call keeps its log, and no step touches the log of another call
            /\ (tasks[t].op = "reconcile" /\ tasks[t].log # 0 /\ tasks'[t].op = "reconcile") =>
                  tasks'[t].log = tasks[t].log
            /\ \A i \in 1..Len(logs) : i # tasks[t].log => logs'[i] = logs[i]

\* C13: reconcile creates exactly one ReconciliationLog, as running, before any
\* item is processed; when it returns, that log is completed, its
\* processed_count is the number of submitted items and equals success_count +
\* failed_count, and the result carries the same counts and the id of that log.
C13_OneLogPerReconcile == []C13_LogState /\ [][C13_OneLog]_vars

\* a second reconcile of three items, some applied and some failed, has returned
C13_Witness ==
    \E t \in TaskIds :
        /\ DoneOk(t, "reconcile")
        /\ tasks[t].result.id = 2
        /\ logs[1].status = "completed"
        /\ logs[2].processed_count = 3
        /\ logs[2].success_count >= 1
        /\ logs[2].failed_count >= 1

\* ---- C14
NotFoundResult(res) ==
    res.kind = "error" /\ res.detail = "transaction_not_exist"

InvalidTransitionResult(res) ==
    res.kind = "error" /\ res.detail \in {"cannot_confirm_status", "cannot_cancel_status"}

\* the caller can tell the two failures apart by the exception class or the status code
C14_Distinguishable ==
    \A t, u \in TaskIds :
        (/\ tasks[t].pc = "done" /\ NotFoundResult(tasks[t].result)
         /\ tasks[u].pc = "done" /\ InvalidTransitionResult(tasks[u].result))
        => \/ tasks[t].result.error # tasks[u].result.error
           \/ HttpStatus(tasks[t].result) # HttpStatus(tasks[u].result)

C14_Rejects ==
    \A t \in TaskIds :
        (/\ tasks[t].pc \in {"confirm_get", "cancel_get"}
         /\ Acting(t))
        => /\ ~TxnExists(tasks[t].tid) =>
                 /\ tasks'[t].pc = "done"
                 /\ NotFoundResult(tasks'[t].result)
                 /\ txns' = txns /\ stock' = stock
           /\ (TxnExists(tasks[t].tid) /\ txns[tasks[t].tid].status # PENDING) =>
                 /\ tasks'[t].pc = "done"
                 /\ InvalidTransitionResult(tasks'[t].result)
                 /\ txns' = txns /\ stock' = stock

\* C14: confirm(id) and cancel(id) fail with NotFound when no transaction has the
\* id and with InvalidTransition when its status is not pending; the two are
\* distinguishable error kinds, and neither changes a record or the stock ledger.
C14_NotFoundVsInvalidTransition == []C14_Distinguishable /\ [][C14_Rejects]_vars

\* ---- C15
C15_Create ==
    \A t \in TaskIds :
        (tasks[t].op = "create" /\ Acting(t)) =>
            /\ (tasks[t].pc = "create_select" /\ ByEventId(tasks[t].data.event_id) = 0) =>
                  /\ txns' = txns
                  /\ IF tasks[t].data.product_id \in Products
                     THEN tasks'[t].pc = "create_insert"
                     ELSE tasks'[t] = Respond(tasks[t], Err("ValueError", "product_not_exist"))
            /\ tasks[t].pc = "create_insert" =>
                  /\ Len(txns') = Len(txns) + 1
                  /\ \A i \in 1..Len(txns) : txns'[i] = txns[i]
                  /\ txns'[Len(txns')].event_id = tasks[t].data.event_id
                  /\ txns'[Len(txns')].product_id = tasks[t].data.product_id
                  /\ txns'[Len(txns')].status = PENDING
                  /\ txns'[Len(txns')].processed_at = FALSE
                  /\ tasks'[t] = Respond(tasks[t], OkTxn(Len(txns'), PENDING))

C15_KnownProducts ==
    \A i \in 1..Len(txns) : txns[i].product_id \in Products

\* C15: with requests run one after another, a create with an event_id that is
\* not stored and a product_id of no product fails with the unknown-product error
\* and adds no record; with an existing product it adds exactly one record,
\* pending and with processed_at unset.
C15_CreateValidatesProduct == []C15_KnownProducts /\ [][C15_Create]_vars

\* a create for an unknown product has been refused after another create was accepted
C15_Witness ==
    \E t \in TaskIds :
        /\ DoneErr(t, "create", "ValueError", "product_not_exist")
        /\ Len(txns) = 1
        /\ txns[1].status = PENDING
        /\ txns[1].event_id # tasks[t].data.event_id

\* ---- C16
C16_CallsRelease ==
    \A t \in TaskIds :
        (/\ tasks[t].op = "cancel"
         /\ tasks[t].pc = "cancel_get"
         /\ TxnExists(tasks[t].tid)
         /\ txns[tasks[t].tid].status = PENDING
         /\ Acting(t))
        => /\ tasks'[t].pc = "release_read"
           /\ tasks'[t].key = <<txns[tasks[t].tid].product_id, txns[tasks[t].tid].location_id>>
           /\ tasks'[t].qty = txns[tasks[t].tid].converted_quantity

C16_Cancelled ==
    \A t \in TaskIds :
        \* a cancel that got past its checks never raises
        /\ (tasks[t].op = "cancel" /\ tasks[t].pc = "done" /\ tasks[t].key # <<0, 0>>) =>
              tasks[t].result.kind = "ok"
        /\ DoneOk(t, "cancel") =>
              /\ txns[tasks[t].tid].status = CANCELLED
              /\ txns[tasks[t].tid].processed_at
              /\ tasks[t].result.status = CANCELLED
              /\ tasks[t].qty = txns[tasks[t].tid].converted_quantity
              /\ IF tasks[t].snap.exists
                 THEN stock[tasks[t].key] =
                         Row(tasks[t].snap.quantity,
                             IF tasks[t].snap.reserved_quantity >= tasks[t].qty
                             THEN tasks[t].snap.reserved_quantity - tasks[t].qty
                             ELSE 0)
                 ELSE ~stock[tasks[t].key].exists

\* C16: with requests run one after another, cancel of a pending transaction
\* calls release with the transaction's product_id, location_id and
\* converted_quantity, sets the status to cancelled and stamps processed_at; it
\* succeeds also when less than the quantity was reserved and when the key has no
\* stock row.
C16_CancelReleases == []C16_Cancelled /\ [][C16_CallsRelease]_vars

\* a cancel has succeeded for a key with no stock row
C16_Witness ==
    \E t \in TaskIds :
        /\ DoneOk(t, "cancel")
        /\ txns[tasks[t].tid].status = CANCELLED
        /\ ~stock[tasks[t].key].exists

\* ---- C17
C17_Reserve ==
    \A t \in TaskIds :
        (tasks[t].op = "reserve" /\ Acting(t)) =>
            LET row == stock[tasks[t].key]
            IN  /\ tasks[t].pc = "reserve_read" =>
                      /\ stock' = stock
                      /\ IF ~row.exists \/ row.quantity - row.reserved_quantity < tasks[t].qty
                         THEN /\ tasks'[t].pc = "done"
                              /\ tasks'[t].result.kind = "error"
                              /\ tasks'[t].result.error = "InsufficientStockError"
                         ELSE tasks'[t].pc = "reserve_write"
                /\ tasks[t].pc = "reserve_write" =>
                      /\ stock'[tasks[t].key] =
                            Row(row.quantity, row.reserved_quantity + tasks[t].qty)
                      /\ tasks'[t] = Respond(tasks[t], OkBool(TRUE))

\* C17: with calls run one after another, reserve fails with InsufficientStock
\* and leaves the row as it is when quantity - reserved_quantity < qty or the key
\* has no row; otherwise it adds exactly qty to reserved_quantity, leaves
\* quantity as it is, and returns True.
C17_ReserveContract == [][C17_Reserve]_vars

\* a reserve on top of an earlier reservation has succeeded
C17_Witness ==
    \E t \in TaskIds :
        /\ DoneOk(t, "reserve")
        /\ tasks[t].qty > 0
        /\ tasks[t].snap.reserved_quantity > 0
        /\ stock[tasks[t].key].reserved_quantity = tasks[t].snap.reserved_quantity + tasks[t].qty

\* ---- C18
C18_Consume ==
    \A t \in TaskIds :
        (tasks[t].op = "consume" /\ Acting(t) /\ stock[tasks[t].key].exists) =>
            LET row == stock[tasks[t].key]
            IN  /\ tasks[t].pc = "consume_read" =>
                      /\ stock' = stock
                      /\ IF row.quantity - row.reserved_quantity < tasks[t].qty
                         THEN /\ tasks'[t].pc = "done"
                              /\ tasks'[t].result.kind = "error"
                              /\ tasks'[t].result.error = "InsufficientStockError"
                         ELSE tasks'[t].pc = "consume_write"
                /\ tasks[t].pc = "consume_write" =>
                      /\ stock'[tasks[t].key] =
                            Row(row.quantity - tasks[t].qty,
                                IF row.reserved_quantity >= tasks[t].qty
                                THEN row.reserved_quantity - tasks[t].qty
                                ELSE 0)
                      /\ tasks'[t] = Respond(tasks[t], OkBool(TRUE))

\* C18: with calls run one after another on a key that has a row, consume fails
\* with InsufficientStock and leaves the row as it is when quantity -
\* reserved_quantity < qty; otherwise it sets quantity to quantity - qty and
\* reserved_quantity to max(0, reserved_quantity - qty) and returns True.
C18_ConsumeContract == [][C18_Consume]_vars

\* a consume has taken stock from a row that carried a reservation
C18_Witness ==
    \E t \in TaskIds :
        /\ DoneOk(t, "consume")
        /\ tasks[t].result.ret
        /\ tasks[t].qty > 0
        /\ tasks[t].snap.reserved_quantity > 0
        /\ stock[tasks[t].key].quantity = tasks[t].snap.quantity - tasks[t].qty

\* ---- C19
C19_Release ==
    \A t \in TaskIds :
        (tasks[t].op = "release" /\ Acting(t)) =>
            LET row == stock[tasks[t].key]
            IN  /\ tasks[t].pc = "release_read" =>
                      /\ stock' = stock
                      /\ IF row.exists
                         THEN tasks'[t].pc = "release_write"
                         ELSE tasks'[t] = Respond(tasks[t], OkBool(TRUE))
                /\ tasks[t].pc = "release_write" =>
                      /\ stock'[tasks[t].key] =
                            Row(row.quantity,
                                IF row.reserved_quantity >= tasks[t].qty
                                THEN row.reserved_quantity - tasks[t].qty
                                ELSE 0)
                      /\ stock'[tasks[t].key].reserved_quantity >= 0
                      /\ row.reserved_quantity = 0 => stock' = stock
                      /\ tasks'[t] = Respond(tasks[t], OkBool(TRUE))

\* C19: with calls run one after another, release sets reserved_quantity to
\* max(0, reserved_quantity - qty), never below zero, leaves quantity as it is,
\* changes nothing once reserved_quantity is 0, and returns success (True) also
\* when the key has no row, where it does nothing.
C19_ReleaseContract == [][C19_Release]_vars

\* ---- C20
C20_Mutation ==
    \A k \in StockKeys :
        (stock'[k] # stock[k] /\ stock'[k].exists) =>
            /\ 0 <= stock'[k].reserved_quantity
            /\ stock'[k].reserved_quantity <= stock'[k].quantity

\* C20: every mutation of a StockLevel row, a declaration through
\* create_stock_level (new row or overwrite) included, leaves it with
\* 0 <= reserved_quantity <= quantity.
C20_InvariantAfterEveryMutation == [][C20_Mutation]_vars

\* ---- C21
\* C21: in every reachable state, also with concurrent declarations for one new
\* pair, the pair (product_id, location_id) has at most one StockLevel row.
C21_OneRowPerPair ==
    \A k \in StockKeys : stock[k].rows <= 1

\* ---- C22
\* a convert_units call of task t has returned or raised
DoneConvert(t) ==
    /\ tasks[t].op = "convert"
    /\ tasks[t].pc = "done"

\* two Decimals kept as fractions are the same number
FracEq(a, b) == a.n * b.d = b.n * a.d

\* C22: a convert call with from_unit = to_unit returns the quantity it was
\* given, whatever the conversion table holds, a row for (from_unit, from_unit)
\* included.
C22_SameUnitUnchanged ==
    \A t \in TaskIds :
        (DoneConvert(t) /\ tasks[t].conv.from_unit = tasks[t].conv.to_unit) =>
            /\ tasks[t].result.kind = "ok"
            /\ FracEq(tasks[t].result.value, tasks[t].conv.quantity)

\* ---- C23
C23_Result ==
    \A t \in TaskIds :
        LET c == tasks[t].conv
            res == tasks[t].result
        IN  (DoneConvert(t) /\ c.from_unit # c.to_unit) =>
              LET direct == conversions[<<c.product_id, c.from_unit, c.to_unit>>]
                  reverse == conversions[<<c.product_id, c.to_unit, c.from_unit>>]
              IN  /\ direct # 0 =>
                        /\ res.kind = "ok"
                        /\ res.value = Frac(c.quantity.n * direct, c.quantity.d)
                  /\ (direct = 0 /\ reverse # 0) =>
                        /\ res.kind = "ok"
                        /\ res.value = Frac(c.quantity.n, c.quantity.d * reverse)
                  /\ (direct = 0 /\ reverse = 0) =>
                        res = Err("InvalidOperationError", "no_conversion")

C23_ReadOnly ==
    (\E t \in TaskIds : tasks[t].op = "convert" /\ Acting(t)) =>
        /\ conversions' = conversions
        /\ stock' = stock
        /\ txns' = txns
        /\ logs' = logs
        /\ audit' = audit

\* C23: for from_unit # to_unit, convert returns quantity * factor of the row
\* (product_id, from_unit, to_unit) when it is stored, also when the reverse row
\* is stored too; otherwise quantity / factor of the row (product_id, to_unit,
\* from_unit) when that is stored; otherwise it fails with the no-conversion
\* error (the code's InvalidOperationError "No conversion available from ... to
\* ..."); no step of convert changes a table.
C23_ConvertContract == []C23_Result /\ [][C23_ReadOnly]_vars

\* a call has multiplied by the direct factor although the reverse row is stored too
C23_Witness ==
    \E t \in TaskIds :
        LET c == tasks[t].conv
        IN  /\ DoneConvert(t)
            /\ c.from_unit # c.to_unit
            /\ conversions[<<c.product_id, c.from_unit, c.to_unit>>] = 3
            /\ conversions[<<c.product_id, c.to_unit, c.from_unit>>] = 2
            /\ tasks[t].result.value = Frac(3 * c.quantity.n, c.quantity.d)

\* ---- C24
\* C24: convert never chains through an intermediate unit and never uses a row of
\* another product: a call for different units succeeds only through the direct
\* or the reverse row of its own product, with that row's factor, and fails with
\* the no-conversion error in every other table.
C24_NoChaining ==
    \A t \in TaskIds :
        LET c == tasks[t].conv
            res == tasks[t].result
        IN  (DoneConvert(t) /\ c.from_unit # c.to_unit) =>
              \/ /\ res.kind = "ok"
                 /\ \/ /\ conversions[<<c.product_id, c.from_unit, c.to_unit>>] # 0
                       /\ FracEq(res.value,
                                 Frac(c.quantity.n
                                        * conversions[<<c.product_id, c.from_unit, c.to_unit>>],
                                      c.quantity.d))
                    \/ /\ conversions[<<c.product_id, c.to_unit, c.from_unit>>] # 0
                       /\ FracEq(res.value,
                                 Frac(c.quantity.n,
                                      c.quantity.d
                                        * conversions[<<c.product_id, c.to_unit, c.from_unit>>]))
              \/ /\ res = Err("InvalidOperationError", "no_conversion")
                 /\ conversions[<<c.product_id, c.from_unit, c.to_unit>>] = 0
                 /\ conversions[<<c.product_id, c.to_unit, c.from_unit>>] = 0

\* a call from A to C has failed although the rows A->B and B->C of its product are stored
C24_Witness ==
    \E t \in TaskIds :
        LET c == tasks[t].conv
        IN  /\ DoneConvert(t)
            /\ tasks[t].result = Err("InvalidOperationError", "no_conversion")
            /\ c.from_unit # c.to_unit
            /\ \E b \in Units \ {c.from_unit, c.to_unit} :
                  /\ conversions[<<c.product_id, c.from_unit, b>>] # 0
                  /\ conversions[<<c.product_id, b, c.to_unit>>] # 0

\* ---- C25
\* C25: when a factor is stored for a product from unit A to another unit B, converting
\* a quantity from A to B and the result back from B to A gives the quantity the
\* first call was given, whatever else the table holds.
C25_RoundTrip ==
    \A t \in TaskIds :
        LET c == tasks[t].conv
            o == tasks[t].first
        IN  (/\ DoneConvert(t)
             /\ o # NoConv
             /\ o.from_unit # o.to_unit
             /\ conversions[<<o.product_id, o.from_unit, o.to_unit>>] # 0)
            => /\ tasks[t].result.kind = "ok"
               /\ FracEq(tasks[t].result.value, o.quantity)

\* ---- C26
\* C26: also when two create calls with one new event_id run concurrently, every
\* create call for an existing product returns the one record of its event_id:
\* no call fails, and no event_id has two records.
C26_ConcurrentCreate ==
    /\ \A i, j \in 1..Len(txns) : txns[i].event_id = txns[j].event_id => i = j
    /\ \A t \in TaskIds :
          (/\ tasks[t].op = "create"
           /\ tasks[t].pc = "done"
           /\ ProductExists(tasks[t].data.product_id))
          => /\ tasks[t].result.kind = "ok"
             /\ tasks[t].result.id = ByEventId(tasks[t].data.event_id)

\* ---- C27
\* the commit steps whose flush runs an audit listener, and what each must leave
C27_Step ==
    \A t \in TaskIds :
        LET task == tasks[t]
        IN  Acting(t) =>
              /\ (task.pc = "create_insert" /\ ByEventId(task.data.event_id) = 0) =>
                    /\ Len(txns') = Len(txns) + 1
                    /\ txns'[Len(txns')].event_id = task.data.event_id
                    /\ txns'[Len(txns')].status = PENDING
                    /\ tasks'[t].pc = "done"
                    /\ tasks'[t].result = OkTxn(Len(txns'), PENDING)
                    /\ stock' = stock
              /\ task.pc = "confirm_commit" =>
                    /\ txns'[task.tid].status = CONFIRMED
                    /\ tasks'[t].pc = "done"
                    /\ tasks'[t].result = OkTxn(task.tid, CONFIRMED)
                    /\ stock' = stock
              /\ task.pc = "confirm_fail" =>
                    /\ txns'[task.tid].status = FAILED
                    /\ tasks'[t].pc = "done"
                    /\ tasks'[t].result = Err("InsufficientStockError", "insufficient")
                    /\ stock' = stock
              /\ task.pc = "cancel_commit" =>
                    /\ txns'[task.tid].status = CANCELLED
                    /\ tasks'[t].pc = "done"
                    /\ tasks'[t].result = OkTxn(task.tid, CANCELLED)
                    /\ stock' = stock
              /\ ~sink => audit' = audit

C28_LogNamesVerifiedTerminal ==
    \A t \in TaskIds :
        (tasks[t].op = "reconcile" /\ tasks[t].log # 0) =>
            logs[tasks[t].log].terminal_id = tasks[t].terminal

\* ---- C29
\* C29: a transaction is confirmed only if its confirm took its
\* converted_quantity from the on-hand quantity of its stock row; a confirm for
\* a key without a row does not end in status confirmed.
C29_ConfirmedOnlyIfDeducted ==
    /\ \A i \in 1..Len(txns) :
          txns[i].status = CONFIRMED => deducted[txns[i].event_id] = 1
    /\ \A t \in TaskIds :
          (DoneOk(t, "confirm") /\ txns[tasks[t].tid].status = CONFIRMED) =>
              /\ tasks[t].snap.exists
              /\ stock[tasks[t].key].quantity = tasks[t].snap.quantity - tasks[t].qty

\* ---- C30
C30_HeldIsConsumable ==
    \A t \in TaskIds :
        (/\ tasks[t].op = "consume"
         /\ tasks[t].pc = "consume_read"
         /\ last[tasks[t].key] = Hold(tasks[t].qty)
         /\ Acting(t))
        => tasks'[t].pc = "consume_write"

\* C30: after reserve(k, q) has returned True and no other call has touched k,
\* consume(k, q) is not refused: it goes on to its write and returns True.
C30_ReserveThenConsume == [][C30_HeldIsConsumable]_vars

\* ---- C31
RECURSIVE ConfirmedQty(_, _)
\* the sum of converted_quantity over the confirmed transactions 1..n of key k
ConfirmedQty(k, n) ==
    IF n = 0 THEN 0
    ELSE (IF txns[n].status = CONFIRMED /\ <<txns[n].product_id, txns[n].location_id>> = k
          THEN txns[n].converted_quantity ELSE 0)
         + ConfirmedQty(k, n - 1)

\* no request is in work
Quiescent == \A t \in TaskIds : tasks[t].pc \in {"idle", "done"}

\* C31: for a key declared once with quantity Q, after any sequence of create,
\* confirm, cancel and reconcile requests run one after another, the on-hand
\* quantity is Q less the converted_quantity of the confirmed transactions of
\* the key, and it is not negative.
C31_OnHandIsDeclaredLessConfirmed ==
    \A k \in StockKeys :
        (Quiescent /\ stock[k].exists) =>
            /\ stock[k].quantity = declared[k] - ConfirmedQty(k, Len(txns))
            /\ stock[k].quantity >= 0

\* a reconcile has confirmed one transaction after another one was cancelled
C31_Witness ==
    /\ Quiescent
    /\ stock[RowKey].exists
    /\ Len(txns) = 2
    /\ txns[1].status = CANCELLED
    /\ txns[2].status = CONFIRMED
    /\ Len(logs) = 1
    /\ logs[1].status = "completed"
    /\ logs[1].success_count = 1
    /\ stock[RowKey].quantity = declared[RowKey] - txns[2].converted_quantity

\* ---- C32
C32_Skip ==
    \A t \in TaskIds :
        LET task == tasks[t]
            id == ByEventId(task.data.event_id)
        IN  (/\ task.op = "reconcile"
             /\ task.pc = "create_select"
             /\ id # 0
             /\ Terminal(txns[id].status)
             /\ Acting(t))
            => /\ txns' = txns
               /\ stock' = stock
               /\ tasks'[t].pc \in {"create_select", "recon_close"}
               /\ tasks'[t].success_count = task.success_count + 1
               /\ tasks'[t].failed_count = task.failed_count

\* C32: a batch item whose event_id has a transaction in status confirmed,
\* failed or cancelled is not confirmed again: the records and the stock ledger
\* stay as they are and the item adds one to success_count, none to failed_count.
C32_SettledItemIsSkipped == [][C32_Skip]_vars

\* a batch of one item that names a cancelled transaction has returned with
\* success_count = 1, the transaction still cancelled
C32_Witness ==
    \E t \in TaskIds :
        /\ DoneOk(t, "reconcile")
        /\ Len(tasks[t].batch) = 1
        /\ ByEventId(tasks[t].batch[1].event_id) # 0
        /\ txns[ByEventId(tasks[t].batch[1].event_id)].status = CANCELLED
        /\ tasks[t].result.success_count = 1
        /\ tasks[t].result.failed_count = 0

\* ---- C33
\* C33: when a reconcile call returns, the transaction of every item of its
\* batch that names an existing product exists and is confirmed, failed or
\* cancelled: none is left pending.
C33_NoItemLeftPending ==
    \A t \in TaskIds :
        (tasks[t].op = "reconcile" /\ tasks[t].pc = "done" /\ tasks[t].result.kind = "ok") =>
            \A i \in 1..Len(tasks[t].batch) :
                ProductExists(tasks[t].batch[i].product_id) =>
                    /\ ByEventId(tasks[t].batch[i].event_id) # 0
                    /\ Terminal(txns[ByEventId(tasks[t].batch[i].event_id)].status)

\* a reconcile has returned after it confirmed a transaction that a create request
\* had left pending
C33_Witness ==
    \E t \in TaskIds :
        /\ DoneOk(t, "reconcile")
        /\ Len(tasks[t].batch) = 1
        /\ tasks[t].base = 1
        /\ Len(txns) = 1
        /\ txns[1].event_id = tasks[t].batch[1].event_id
        /\ txns[1].status = CONFIRMED
        /\ tasks[t].result.success_count = 1

\* ---- C34
\* C34: no ReconciliationLog is left in status running after its reconcile call
\* has ended, also when a failure of the storage ended the call: a log in status
\* running belongs to a call that is still in work.
C34_NoLogLeftRunning ==
    \A i \in 1..Len(logs) :
        logs[i].status = "running" =>
            \E t \in TaskIds :
                /\ tasks[t].op = "reconcile"
                /\ tasks[t].log = i
                /\ tasks[t].pc # "done"

\* ---- C35
\* C35: in every reachable state, also with interleaved requests, processed_at
\* of a transaction is set exactly when its status is confirmed, cancelled or
\* failed.
C35_ProcessedAtIffSettled ==
    \A i \in 1..Len(txns) :
        txns[i].processed_at <=> Terminal(txns[i].status)

\* one transaction has failed, one is cancelled, both stamped
C35_Witness ==
    /\ Len(txns) = 2
    /\ txns[1].status = FAILED /\ txns[1].processed_at
    /\ txns[2].status = CANCELLED /\ txns[2].processed_at

\* ---- C36
C36_Step ==
    \A k \in StockKeys :
        (stock[k].exists /\ stock'[k].exists) => stock'[k].quantity <= stock[k].quantity

\* C36: no step of confirm or cancel raises the on-hand quantity of a key,
\* whatever converted_quantity the request schema accepted, zero and negative
\* values included.
C36_OnHandNeverIncreases == [][C36_Step]_vars

\* ---- C37
C37_Cancel ==
    \A t \in TaskIds :
        (tasks[t].op = "cancel" /\ Acting(t)) =>
            \A k \in StockKeys :
                stock'[k].reserved_quantity = stock[k].reserved_quantity

\* C37: cancelling a pending transaction, for which create made no reservation,
\* leaves the reserved_quantity of its key as it was.
C37_CancelKeepsReserved == [][C37_Cancel]_vars

\* ---- C38
C38_Create ==
    \A t \in TaskIds :
        LET task == tasks[t]
            id == ByEventId(task.data.event_id)
        IN  (/\ task.op = "create"
             /\ task.pc = "create_select"
             /\ id # 0
             /\ Acting(t))
            => /\ tasks'[t] = Respond(task, OkTxn(id, txns[id].status))
               /\ txns' = txns
               /\ stock' = stock

\* C38: a create with a stored event_id returns the stored transaction and
\* changes nothing, also when the payload names another product, location or
\* quantity than the stored record: no field of the record changes, the product
\* of the payload is not looked up, the stock ledger is not touched.
C38_ExistingReturnedUnchanged == [][C38_Create]_vars

\* a create whose payload names an unknown product, an unknown location and another
\* quantity has returned the stored, confirmed transaction of its event_id
C38_Witness ==
    \E t \in TaskIds :
        /\ DoneOk(t, "create")
        /\ ~ProductExists(tasks[t].data.product_id)
        /\ ~LocationExists(tasks[t].data.location_id)
        /\ tasks[t].result.id = ByEventId(tasks[t].data.event_id)
        /\ tasks[t].result.status = CONFIRMED
        /\ txns[tasks[t].result.id].status = CONFIRMED
        /\ txns[tasks[t].result.id].converted_quantity # tasks[t].data.converted_quantity

\* ---- C39
C39_Stored ==
    \A i \in 1..Len(txns) :
        /\ txns[i].product_id \in Products
        /\ txns[i].location_id \in Locations

C39_Create ==
    \A t \in TaskIds :
        LET task == tasks[t]
        IN  (/\ task.op = "create"
             /\ task.pc \in {"create_select", "create_insert"}
             /\ ByEventId(task.data.event_id) = 0
             /\ ~(task.data.product_id \in Products /\ task.data.location_id \in Locations)
             /\ Acting(t))
            => /\ txns' = txns
               /\ \/ tasks'[t].pc = "create_insert"
                  \/ tasks'[t].pc = "done" /\ tasks'[t].result.kind = "error"
               /\ task.pc = "create_insert" => tasks'[t].pc = "done"

Authentic(req) ==
    /\ req.terminal_id # "missing"
    /\ req.timestamp.kind = "iso"
    /\ req.signature.kind # "missing"
    /\ Abs(req.timestamp.skew) <= TERMINAL_TIME_WINDOW_MINUTES
    /\ req.terminal_id \in Registered
    /\ terminals[req.terminal_id].is_active
    /\ req.signature =
          Sig("hex", calculate_hmac_signature(
                         Message("POST", ReconcilePath, req.timestamp, req.body),
                         SecretOf(req.terminal_id)))

C40_Verify ==
    \A t \in TaskIds :
        LET task == tasks[t]
        IN  (task.pc = "verify" /\ Acting(t)) =>
              IF Authentic(task.request)
              THEN /\ tasks'[t].result.kind = "ok"
                   /\ tasks'[t].result.detail = task.request.terminal_id
              ELSE /\ tasks'[t].result.kind = "error"
                   /\ tasks'[t].result.error = "HTTPException_401"
                   /\ terminals' = terminals

\* C40: verify_hmac_signature returns a terminal only when the three headers are
\* present, the timestamp is within TERMINAL_TIME_WINDOW_MINUTES of now, the
\* terminal exists and is active and the signature is the HMAC of the message
\* under that terminal's secret; in every other case it fails with 401 and
\* leaves last_heartbeat as it was.
C40_GateContract == [][C40_Verify]_vars

====
